---------------------------- MODULE Spec2Model ----------------------------
(***************************************************************************)
(* A model of cildiff, the structural differ for SELinux CIL policies of   *)
(* WhimSE.  Two policies are loaded, every AST node gets a partial and a   *)
(* full hash, the children of a container are grouped into subsets by      *)
(* partial hash, and two trees are compared level by level into a diff     *)
(* tree that is finally printed.                                           *)
(*                                                                         *)
(* A digest is modelled by the sequence of items that were absorbed into   *)
(* the hash state, so two digests are equal exactly when the same bytes    *)
(* were absorbed (SHA-256 without collisions).  The byte order of digests  *)
(* (memcmp) and the leading word of a digest (the bucket selector of the   *)
(* hash tables) are fixed functions of the absorbed items.                 *)
(***************************************************************************)
EXTENDS Integers, Sequences, FiniteSets, TLC

(***************************************************************************)
(* cmp_common.c : hash primitive                                           *)
(***************************************************************************)

\* one absorbed item: a NUL terminated string, the bytes of an enum or int
\* field, or a HASH_SIZE digest
TokStr(s) == <<"s", s>>
TokEnum(e) == <<"e", e>>
TokInt(i) == <<"i", i>>
TokHash(h) == <<"h", h>>
TokBytes(b) == <<"b", b>>

\* the NULL pointer where a digest is expected
NULL_HASH == << <<"n", "">> >>

\* the NULL pointer where a string is expected
NULL_STR == "<NULL>"

cmp_hash_update(hash_state, tok) == Append(hash_state, tok)

cmp_hash_update_string(hash_state, string) == cmp_hash_update(hash_state, TokStr(string))

\* a start that absorbs no tag
cmp_hash_begin_untagged(flavor) == <<>>

cmp_hash_begin(flavor) == IF flavor # NULL_STR THEN cmp_hash_update_string(<<>>, flavor) ELSE <<>>

cmp_hash_copy(hash_state) == hash_state

cmp_hash_finish(hash_state) == hash_state

cmp_hash(tok) == cmp_hash_finish(cmp_hash_update(cmp_hash_begin(NULL_STR), tok))

\* every string and enum name that is ever absorbed, in the order used to
\* compare the bytes of two digests
StrTable == <<"", "<cond::empty>", "<cond::false>", "<cond::true>", "<empty-set>",
              "<expr>", "<expr_op>", "A", "B", "C", "CIL_AND", "CIL_BOOL", "CIL_NOT",
              "CIL_OR", "CIL_PERM", "CIL_TYPE", "D", "E", "F", "P", "Q", "T", "U",
              "avrule", "b", "block", "booleanif", "c", "classperms", "ctx",
              "m", "m1", "m2", "ibpkeycon", "in", "macro", "o1", "o2", "o3",
              "optional", "p", "q", "root", "src_info", "tunableif", "type", "x", "y",
              "class", "perm", "classmap", "px">>

StrRank(s) ==
    LET rank(table) == CHOOSE i \in DOMAIN table : table[i] = s
    IN rank(StrTable)

\* the kinds of absorbed items, in the order used to compare two items of
\* different kinds
KindTable == <<"b", "e", "h", "i", "n", "s">>

Sign(n) == IF n < 0 THEN -1 ELSE IF n > 0 THEN 1 ELSE 0

\* the order of two entries of a table
RankCmp(table, x, y) ==
    Sign((CHOOSE i \in DOMAIN table : table[i] = x) - (CHOOSE j \in DOMAIN table : table[j] = y))

RECURSIVE memcmp(_, _)
RECURSIVE memcmp_item(_, _)

\* the byte order of two absorbed items that differ
memcmp_item(a, b) ==
    IF a[1] # b[1] THEN RankCmp(KindTable, a[1], b[1])
    ELSE IF a[1] = "h" THEN memcmp(a[2], b[2])
    ELSE IF a[1] = "i" THEN Sign(a[2] - b[2])
    ELSE RankCmp(StrTable, a[2], b[2])

\* the byte order of two digests: negative, zero or positive; the first
\* item in which they differ decides
memcmp(h1, h2) ==
    IF h1 = <<>> /\ h2 = <<>> THEN 0
    ELSE IF h1 = <<>> THEN -1
    ELSE IF h2 = <<>> THEN 1
    ELSE IF Head(h1) = Head(h2) THEN memcmp(Tail(h1), Tail(h2))
    ELSE memcmp_item(Head(h1), Head(h2))

\* a comparator that orders the digests but never reports them equal
cmp_hash_cmp_strict(hash1, hash2) == IF memcmp(hash1, hash2) <= 0 THEN -1 ELSE 1

cmp_hash_cmp(hash1, hash2) ==
    IF hash1 = NULL_HASH /\ hash2 = NULL_HASH THEN 0
    ELSE IF hash1 = NULL_HASH THEN -1
    ELSE IF hash2 = NULL_HASH THEN 1
    ELSE memcmp(hash1, hash2)

RECURSIVE FirstWord(_)
RECURSIVE ItemWord(_)

\* what one absorbed item contributes to the leading word
ItemWord(t) ==
    IF t[1] = "h" THEN FirstWord(t[2])
    ELSE IF t[1] = "i" THEN t[2] + 1
    ELSE StrRank(t[2])

\* ((const unsigned int *)key)[0] : the leading word of a digest, here a
\* number fixed by the length of the input and by its last item
FirstWord(h) ==
    IF h = <<>> THEN 7
    ELSE (ItemWord(h[Len(h)]) * 31 + Len(h) * 17) % 65521

cmp_hash_hashtab_hash(size, key) == FirstWord(key) % (IF size # 0 THEN size ELSE 1)

RECURSIVE InsertSorted(_, _)
InsertSorted(sorted, h) ==
    IF sorted = <<>> THEN <<h>>
    ELSE IF cmp_hash_cmp(h, Head(sorted)) <= 0 THEN <<h>> \o sorted
    ELSE <<Head(sorted)>> \o InsertSorted(Tail(sorted), h)

\* the digests left in the order they were computed in
hashes_in_source_order(hashes) == hashes

RECURSIVE qsort_hashes(_)
\* qsort(hashes, n, HASH_SIZE, &cmp_hash_qsort_cmp): elements that compare
\* equal are the same bytes, so the result does not depend on the algorithm
qsort_hashes(hashes) ==
    IF hashes = <<>> THEN <<>>
    ELSE InsertSorted(qsort_hashes(Tail(hashes)), Head(hashes))

RECURSIVE cmp_hash_update_hashes(_, _)
\* cmp_hash_update(state, n * HASH_SIZE, hashes)
cmp_hash_update_hashes(hash_state, hashes) ==
    IF hashes = <<>> THEN hash_state
    ELSE cmp_hash_update_hashes(cmp_hash_update(hash_state, TokHash(Head(hashes))), Tail(hashes))

(***************************************************************************)
(* cmp_data.c : the data hasher, one rule per statement flavor             *)
(***************************************************************************)

\* the partial hash state while no snapshot has been taken
NULL_STATE == << <<"n", "">> >>

RECURSIVE hash_cil_expr(_)
RECURSIVE expr_children_hashes(_)

\* the digests of the operands of an expression, in source order
expr_children_hashes(items) ==
    IF items = <<>> THEN <<>>
    ELSE << IF Head(items).flavor = "CIL_STRING" THEN cmp_hash(TokStr(Head(items).str))
            ELSE IF Head(items).flavor = "CIL_LIST" THEN hash_cil_expr(Head(items).list)
            ELSE cmp_hash(TokEnum(Head(items).op)) >>
         \o expr_children_hashes(Tail(items))

\* the state after the flavor of the expression and, when the first item
\* is an operator, after the operator
hash_cil_expr_head(expr) ==
    IF expr.items # <<>> /\ Head(expr.items).flavor = "CIL_OP"
    THEN cmp_hash_update(
             cmp_hash_update_string(
                 cmp_hash_update(cmp_hash_begin("<expr>"), TokEnum(expr.flavor)), "<expr_op>"),
             TokEnum(Head(expr.items).op))
    ELSE cmp_hash_update(cmp_hash_begin("<expr>"), TokEnum(expr.flavor))

hash_cil_expr(expr) ==
    IF expr.items = <<>> THEN cmp_hash_finish(hash_cil_expr_head(expr))
    ELSE cmp_hash_finish(
             cmp_hash_update_hashes(
                 hash_cil_expr_head(expr),
                 qsort_hashes(expr_children_hashes(
                     IF Head(expr.items).flavor = "CIL_OP" THEN Tail(expr.items)
                     ELSE expr.items))))

\* root and src_info absorb nothing beyond the flavor name
cmp_data_root_init(root, full_hash) == [full |-> full_hash, partial |-> NULL_STATE]

cmp_data_src_info_init(src_info, full_hash) == [full |-> full_hash, partial |-> NULL_STATE]

\* DEFINE_DATA_SIMPLE_DECL: type, block, class, perm (and every other simple
\* declaration)
cmp_data_simple_decl_init(decl, full_hash) ==
    [full |-> cmp_hash_update_string(full_hash, decl.name), partial |-> NULL_STATE]

cmp_data_classperms_init(classperms, full_hash) ==
    [full |-> cmp_hash_update(cmp_hash_update_string(full_hash, classperms.class_str),
                              TokHash(hash_cil_expr(classperms.perm_strs))),
     partial |-> cmp_hash_copy(cmp_hash_update_string(full_hash, classperms.class_str))]

\* the anonymous classpermissionset of a rule: cmp_data_init of its flavor
classperms_full_hash(cp) ==
    cmp_hash_finish(cmp_data_classperms_init(cp, cmp_hash_begin("classperms")).full)

\* the state of an avrule up to the target: extended flag, kind, source, target
cmp_data_avrule_head(avrule, full_hash) ==
    cmp_hash_update_string(
        cmp_hash_update_string(
            cmp_hash_update(cmp_hash_update(full_hash, TokInt(avrule.is_extended)),
                            TokInt(avrule.rule_kind)),
            avrule.src_str),
        avrule.tgt_str)

cmp_data_avrule_init(avrule, full_hash) ==
    [full |-> IF avrule.is_extended # 0
              THEN cmp_hash_update_string(cmp_data_avrule_head(avrule, full_hash),
                                          avrule.permx_str)
              ELSE cmp_hash_update(cmp_data_avrule_head(avrule, full_hash),
                                   TokHash(classperms_full_hash(avrule.classperms))),
     partial |-> cmp_hash_copy(cmp_data_avrule_head(avrule, full_hash))]

RECURSIVE hash_macro_params(_, _)
hash_macro_params(full_hash, params) ==
    IF params = <<>> THEN full_hash
    ELSE hash_macro_params(
             cmp_hash_update_string(cmp_hash_update(full_hash, TokEnum(Head(params).flavor)),
                                    Head(params).str),
             Tail(params))

cmp_data_macro_init(macro, full_hash) ==
    [full |-> hash_macro_params(cmp_hash_update_string(full_hash, macro.name), macro.params),
     partial |-> cmp_hash_copy(cmp_hash_update_string(full_hash, macro.name))]

\* *partial_hash = cmp_hash_copy(full_hash) after the last field: the
\* partial hash covers everything the full hash covers
cmp_data_partial_is_full(full_hash) == [full |-> full_hash, partial |-> cmp_hash_copy(full_hash)]

cmp_data_booleanif_init(booleanif, full_hash) ==
    cmp_data_partial_is_full(
        cmp_hash_update(full_hash, TokHash(hash_cil_expr(booleanif.str_expr))))

cmp_data_tunableif_init(tunableif, full_hash) ==
    cmp_data_partial_is_full(
        cmp_hash_update(full_hash, TokHash(hash_cil_expr(tunableif.str_expr))))

\* a hasher that takes the snapshot after the name, as for a named declaration
cmp_data_optional_named_init(optional, full_hash) ==
    cmp_data_partial_is_full(cmp_hash_update_string(full_hash, optional.name))

\* the snapshot is taken before the name is absorbed
cmp_data_optional_init(optional, full_hash) ==
    [full |-> cmp_hash_update_string(full_hash, optional.name),
     partial |-> cmp_hash_copy(full_hash)]

cmp_data_in_init(in, full_hash) ==
    [full |-> cmp_hash_update_string(cmp_hash_update(full_hash, TokInt(in.is_after)),
                                     in.block_str),
     partial |-> NULL_STATE]

\* pkey_low is absorbed twice, pkey_high is not absorbed
cmp_data_ibpkeycon_head(ibpkeycon, full_hash) ==
    cmp_hash_update(
        cmp_hash_update(cmp_hash_update_string(full_hash, ibpkeycon.subnet_prefix_str),
                        TokInt(ibpkeycon.pkey_low)),
        TokInt(ibpkeycon.pkey_low))

cmp_data_ibpkeycon_init(ibpkeycon, full_hash) ==
    [full |-> cmp_hash_update_string(cmp_data_ibpkeycon_head(ibpkeycon, full_hash),
                                     ibpkeycon.context_str),
     partial |-> cmp_hash_copy(cmp_data_ibpkeycon_head(ibpkeycon, full_hash))]

\* flavor_name of the entry of data_defs[] for a flavor, NULL_STR when the
\* table has no entry
data_defs(flavor) ==
    CASE flavor = "CIL_ROOT" -> "root"
      [] flavor = "CIL_SRC_INFO" -> "src_info"
      [] flavor = "CIL_AVRULE" -> "avrule"
      [] flavor = "CIL_AVRULEX" -> "avrule"
      [] flavor = "CIL_MACRO" -> "macro"
      [] flavor = "CIL_BOOLEANIF" -> "booleanif"
      [] flavor = "CIL_TUNABLEIF" -> "tunableif"
      [] flavor = "CIL_BLOCK" -> "block"
      [] flavor = "CIL_OPTIONAL" -> "optional"
      [] flavor = "CIL_IN" -> "in"
      [] flavor = "CIL_IBPKEYCON" -> "ibpkeycon"
      [] flavor = "CIL_TYPE" -> "type"
      [] flavor = "CIL_CLASS" -> "class"
      [] flavor = "CIL_PERM" -> "perm"
      [] flavor = "CIL_MAP_PERM" -> "perm"
      [] flavor = "CIL_MAP_CLASS" -> "classmap"
      [] OTHER -> NULL_STR

data_def_init(name, cil_data, full_hash) ==
    CASE name = "root" -> cmp_data_root_init(cil_data, full_hash)
      [] name = "src_info" -> cmp_data_src_info_init(cil_data, full_hash)
      [] name = "avrule" -> cmp_data_avrule_init(cil_data, full_hash)
      [] name = "macro" -> cmp_data_macro_init(cil_data, full_hash)
      [] name = "booleanif" -> cmp_data_booleanif_init(cil_data, full_hash)
      [] name = "tunableif" -> cmp_data_tunableif_init(cil_data, full_hash)
      [] name = "optional" -> cmp_data_optional_init(cil_data, full_hash)
      [] name = "in" -> cmp_data_in_init(cil_data, full_hash)
      [] name = "ibpkeycon" -> cmp_data_ibpkeycon_init(cil_data, full_hash)
      [] OTHER -> cmp_data_simple_decl_init(cil_data, full_hash)

\* a flavor without rule would get a rule that absorbs the flavor tag alone
cmp_data_init_default_rule(flavor) == FALSE

\* if (flavor >= DATA_DEFS_COUNT || !data_defs[flavor].init) error(EXIT_FAILURE, ...)
cmp_data_init_error(flavor) == data_defs(flavor) = NULL_STR

\* cmp_data_init for a flavor that has an entry in data_defs[]
\* the two states are finished; without a snapshot the partial hash is a
\* copy of the full hash
cmp_data_finish(r) ==
    [full_hash |-> cmp_hash_finish(r.full),
     partial_hash |-> IF r.partial # NULL_STATE THEN cmp_hash_finish(r.partial)
                      ELSE cmp_hash_finish(r.full)]

cmp_data_init(flavor, cil_data) ==
    cmp_data_finish(
        data_def_init(data_defs(flavor), cil_data, cmp_hash_begin(data_defs(flavor))))

(***************************************************************************)
(* libsepol hashtab as used by the sets and subsets: a table is the        *)
(* sequence of its (key, datum) entries in the order hashtab_map visits    *)
(* them, bucket by bucket, every chain ascending by key.                   *)
(***************************************************************************)

NULL_NODE == [null |-> TRUE]
NULL_SUBSET == [null |-> TRUE]
NULL_SET == [null |-> TRUE]

RECURSIVE hashtab_insert(_, _, _)
\* the entry goes before the first entry of a higher bucket or, in its own
\* chain, of a greater key
hashtab_insert(entries, e, size) ==
    IF entries = <<>> THEN <<e>>
    ELSE IF cmp_hash_hashtab_hash(size, e.key) < cmp_hash_hashtab_hash(size, Head(entries).key)
            \/ (/\ cmp_hash_hashtab_hash(size, e.key)
                       = cmp_hash_hashtab_hash(size, Head(entries).key)
                /\ cmp_hash_cmp(e.key, Head(entries).key) < 0)
    THEN <<e>> \o entries
    ELSE <<Head(entries)>> \o hashtab_insert(Tail(entries), e, size)

RECURSIVE hashtab_fill(_, _, _)
\* a table of the given size holding the given entries (keys distinct)
hashtab_fill(entries, todo, size) ==
    IF todo = <<>> THEN entries
    ELSE hashtab_fill(hashtab_insert(entries, Head(todo), size), Tail(todo), size)

\* hashtab_search finds an entry: keys are matched with the key comparator
hashtab_has(entries, key) == \E i \in DOMAIN entries : cmp_hash_cmp(entries[i].key, key) = 0

\* hashtab_search: the datum stored under the key, or the given NULL
hashtab_search(entries, key, null) ==
    Head(SelectSeq(entries, LAMBDA e : cmp_hash_cmp(e.key, key) = 0)
         \o <<[key |-> key, datum |-> null]>>).datum

\* items->htable[0]->datum: the head of the chain of bucket 0; the given
\* NULL when that bucket is empty
htable0(entries, size, null) ==
    IF entries # <<>> /\ cmp_hash_hashtab_hash(size, entries[1].key) = 0
    THEN entries[1].datum
    ELSE null

Keys(entries) == [i \in DOMAIN entries |-> entries[i].key]

(***************************************************************************)
(* cmp_node.c, cmp_node_defs.c, cmp_set.c, cmp_subset.c : building the     *)
(* comparison tree                                                         *)
(***************************************************************************)

\* node_defs[]: which init, compare and sim a flavor has registered
cmp_node_get_def(flavor) ==
    CASE flavor \in {"CIL_ROOT", "CIL_SRC_INFO", "CIL_OPTIONAL"} ->
             [init |-> "container", compare |-> "container", sim |-> "container"]
      [] flavor \in {"CIL_MACRO", "CIL_COMMON", "CIL_CLASS", "CIL_MAP_CLASS", "CIL_BLOCK",
                     "CIL_IN"} ->
             [init |-> "container", compare |-> "container", sim |-> "none"]
      [] flavor \in {"CIL_BOOLEANIF", "CIL_TUNABLEIF"} ->
             [init |-> "cond_container", compare |-> "cond_container",
              sim |-> "cond_container"]
      [] OTHER -> [init |-> "default", compare |-> "none", sim |-> "none"]

\* an insertion that does not look for the full hash first
cmp_subset_add_node_unchecked(subset, node) ==
    [subset EXCEPT !.items = Append(@, [key |-> node.full_hash, datum |-> node])]

\* the subset that cmp_subset_create makes for its first node and
\* cmp_subset_add_node fills: a node whose full hash is already present is
\* destroyed, the first one stays
cmp_subset_add_node(subset, node) ==
    IF hashtab_has(subset.items, node.full_hash) THEN subset
    ELSE [subset EXCEPT !.items = Append(@, [key |-> node.full_hash, datum |-> node])]

\* the size of the table a subset starts with
SUBSET_HASHTAB_SIZE == 10

cmp_subset_create(node) ==
    [null |-> FALSE, flavor |-> node.flavor, size |-> SUBSET_HASHTAB_SIZE, items |-> <<>>,
     full_hash |-> NULL_HASH]

\* one member lends its hash to the subset, several are sorted and hashed
finalize_hash_children(hashtab) ==
    IF Len(hashtab) = 1 THEN hashtab[1].key
    ELSE cmp_hash_finish(cmp_hash_update_hashes(cmp_hash_begin(NULL_STR),
                                                qsort_hashes(Keys(hashtab))))

\* subset->items = hashtab, a table of the given size
finalize_copy_hashtab(subset, size, hashtab) ==
    [subset EXCEPT !.size = size, !.items = hashtab,
                   !.full_hash = finalize_hash_children(hashtab)]

\* a finalize that leaves the members in the table of the initial size
cmp_subset_finalize_in_place(subset) ==
    finalize_copy_hashtab(subset, subset.size, hashtab_fill(<<>>, subset.items, subset.size))

\* the members move into a table of size nel
cmp_subset_finalize(subset) ==
    finalize_copy_hashtab(subset, Len(subset.items),
                          hashtab_fill(<<>>, subset.items, Len(subset.items)))

RECURSIVE cmp_node_create(_, _)
RECURSIVE cmp_set_create(_, _)
RECURSIVE set_add_children(_, _, _, _)
RECURSIVE cond_items(_, _, _, _)

\* the loop of cmp_set_create over the children: the subsets so far, as
\* (partial hash, subset) entries in creation order
\* one round of the loop for the node of a child: the node joins the
\* subset found under its partial hash, or a new subset made for it
set_add_child(subsets, node) ==
    IF hashtab_has(subsets, node.partial_hash)
    THEN [j \in DOMAIN subsets |->
             IF cmp_hash_cmp(subsets[j].key, node.partial_hash) = 0
             THEN [subsets[j] EXCEPT !.datum = cmp_subset_add_node(@, node)]
             ELSE subsets[j]]
    ELSE Append(subsets, [key |-> node.partial_hash,
                          datum |-> cmp_subset_add_node(cmp_subset_create(node), node)])

set_add_children(cl, id, i, subsets) ==
    IF i > Len(cl) THEN subsets
    ELSE set_add_children(cl, id, i + 1,
                          set_add_child(subsets, cmp_node_create(cl[i], Append(id, i))))

\* hashtab_map(set->items, &set_finalize, &finalize_args)
set_finalize(subsets) ==
    [j \in DOMAIN subsets |->
        [key |-> subsets[j].key, datum |-> cmp_subset_finalize(subsets[j].datum)]]

\* the set over the finalized subsets: its table and the hash of the sorted
\* full hashes of the subsets
set_of_subsets(child_count, finalized) ==
    [null |-> FALSE, child_count |-> child_count,
     items |-> hashtab_fill(<<>>, finalized, child_count),
     full_hash |-> cmp_hash_finish(
                       cmp_hash_update_hashes(
                           cmp_hash_begin(NULL_STR),
                           qsort_hashes([j \in DOMAIN finalized |->
                                            finalized[j].datum.full_hash])))]

cmp_set_create(cl, id) ==
    IF Len(cl) = 0
    THEN [null |-> FALSE, child_count |-> 0, items |-> <<>>,
          full_hash |-> cmp_hash(TokBytes("<empty-set>"))]
    ELSE set_of_subsets(Len(cl), set_finalize(set_add_children(cl, id, 1, <<>>)))

\* the loop of cmp_node_init_cond_container over the condblocks: items[0]
\* is the false branch, items[1] the true branch, a later condblock of the
\* same kind replaces an earlier one
cond_items(cl, id, i, items) ==
    IF i > Len(cl) THEN items
    ELSE cond_items(cl, id, i + 1,
             [items EXCEPT ![IF cl[i].data.flavor = "CIL_CONDTRUE" THEN 2 ELSE 1] =
                               cmp_set_create(cl[i].cl, Append(id, i))])

\* the node of a container: the partial hash is that of its data, the full
\* hash covers the data and the set of the children
container_node(cil_node, id, cmp_data, items) ==
    [null |-> FALSE, id |-> id, flavor |-> cil_node.flavor, items |-> <<items>>,
     partial_hash |-> cmp_data.partial_hash,
     full_hash |-> cmp_hash_finish(
                       cmp_hash_update(
                           cmp_hash_update(cmp_hash_begin(NULL_STR),
                                           TokHash(cmp_data.full_hash)),
                           TokHash(items.full_hash))),
     init_rc |-> TRUE]

cmp_node_init_container(cil_node, id) ==
    container_node(cil_node, id, cmp_data_init(cil_node.flavor, cil_node.data),
                   cmp_set_create(cil_node.cl, id))

cond_absorb(hash_state, name, set) ==
    IF ~set.null
    THEN cmp_hash_update(cmp_hash_update_string(hash_state, name), TokHash(set.full_hash))
    ELSE cmp_hash_update_string(cmp_hash_update_string(hash_state, name), "<cond::empty>")

\* the node of a conditional: the full hash covers the data, the false
\* branch and the true branch
cond_container_node(cil_node, id, cmp_data, items) ==
    [null |-> FALSE, id |-> id, flavor |-> cil_node.flavor, items |-> items,
     partial_hash |-> cmp_data.partial_hash,
     full_hash |-> cmp_hash_finish(
                       cond_absorb(
                           cond_absorb(
                               cmp_hash_update(cmp_hash_begin(NULL_STR),
                                               TokHash(cmp_data.full_hash)),
                               "<cond::false>", items[1]),
                           "<cond::true>", items[2])),
     init_rc |-> TRUE]

cmp_node_init_cond_container(cil_node, id) ==
    cond_container_node(cil_node, id, cmp_data_init(cil_node.flavor, cil_node.data),
                        cond_items(cil_node.cl, id, 1, <<NULL_SET, NULL_SET>>))

\* the node takes the two hashes of its data; returns false, so
\* cmp_node_create copies the full hash over the partial
cmp_node_default_init(cil_node, id) ==
    cmp_data_init(cil_node.flavor, cil_node.data)
        @@ [null |-> FALSE, id |-> id, flavor |-> cil_node.flavor, items |-> <<>>,
            init_rc |-> FALSE]

\* def->init(node) by the kind of init the flavor has registered
cmp_node_init(cil_node, id) ==
    IF cmp_node_get_def(cil_node.flavor).init = "container"
    THEN cmp_node_init_container(cil_node, id)
    ELSE IF cmp_node_get_def(cil_node.flavor).init = "cond_container"
    THEN cmp_node_init_cond_container(cil_node, id)
    ELSE cmp_node_default_init(cil_node, id)

RECURSIVE cmp_node_create_exits(_)
\* some cmp_data_init call that cmp_node_create makes under the node ends the
\* process: a container creates its children, a conditional the children of
\* its condblocks, any other node none
cmp_node_create_exits(cil_node) ==
    \/ cmp_data_init_error(cil_node.flavor)
    \/ /\ cmp_node_get_def(cil_node.flavor).init = "container"
       /\ \E i \in DOMAIN cil_node.cl : cmp_node_create_exits(cil_node.cl[i])
    \/ /\ cmp_node_get_def(cil_node.flavor).init = "cond_container"
       /\ \E i \in DOMAIN cil_node.cl :
              \E j \in DOMAIN cil_node.cl[i].cl : cmp_node_create_exits(cil_node.cl[i].cl[j])

\* if (!def->init(node)) memcpy(node->partial_hash, node->full_hash, HASH_SIZE)
cmp_node_copy_hash(node) ==
    [null |-> FALSE, id |-> node.id, flavor |-> node.flavor, items |-> node.items,
     partial_hash |-> IF ~node.init_rc THEN node.full_hash ELSE node.partial_hash,
     full_hash |-> node.full_hash]

cmp_node_create(cil_node, id) == cmp_node_copy_hash(cmp_node_init(cil_node, id))

(***************************************************************************)
(* The AST that cil_build_ast hands over: a node has a flavor, the data of *)
(* its flavor and its children in source order.  Under the root sits one   *)
(* src_info node per input file, the statements are its children.          *)
(***************************************************************************)

StrItem(s) == [flavor |-> "CIL_STRING", str |-> s]
OpItem(op) == [flavor |-> "CIL_OP", op |-> op]
ListItem(expr) == [flavor |-> "CIL_LIST", list |-> expr]

\* a permission list (D E): an expression of flavor CIL_PERM without operator
Perms(ps) == [flavor |-> "CIL_PERM", items |-> [i \in DOMAIN ps |-> StrItem(ps[i])]]

\* (allow src tgt (class (perms)))
Allow(src, tgt, class, ps) ==
    [flavor |-> "CIL_AVRULE",
     data |-> [is_extended |-> 0, rule_kind |-> 1, src_str |-> src, tgt_str |-> tgt,
               classperms |-> [class_str |-> class, perm_strs |-> Perms(ps)]],
     cl |-> <<>>]

Type(name) == [flavor |-> "CIL_TYPE", data |-> [name |-> name], cl |-> <<>>]

\* (class name (perms)): the permissions are the children of the class
Class(name, perms) ==
    [flavor |-> "CIL_CLASS", data |-> [name |-> name],
     cl |-> [i \in DOMAIN perms |-> [flavor |-> "CIL_PERM", data |-> [name |-> perms[i]],
                                     cl |-> <<>>]]]

Optional(name, cl) == [flavor |-> "CIL_OPTIONAL", data |-> [name |-> name], cl |-> cl]

Block(name, cl) == [flavor |-> "CIL_BLOCK", data |-> [name |-> name], cl |-> cl]

Macro(name, params, cl) ==
    [flavor |-> "CIL_MACRO", data |-> [name |-> name, params |-> params], cl |-> cl]

In(block_str, cl) ==
    [flavor |-> "CIL_IN", data |-> [is_after |-> 0, block_str |-> block_str], cl |-> cl]

CondBlock(flavor, cl) == [flavor |-> "CIL_CONDBLOCK", data |-> [flavor |-> flavor], cl |-> cl]

\* (booleanif b (true ...)) with the condition a single boolean name
BooleanIf(b, condblocks) ==
    [flavor |-> "CIL_BOOLEANIF",
     data |-> [str_expr |-> [flavor |-> "CIL_BOOL", items |-> <<StrItem(b)>>]],
     cl |-> condblocks]

\* a statement of a flavor that data_defs[] has no entry for
Unregistered(name) == [flavor |-> "CIL_NODE", data |-> [name |-> name], cl |-> <<>>]

IbPkeyCon(prefix, low, high, ctx) ==
    [flavor |-> "CIL_IBPKEYCON",
     data |-> [subnet_prefix_str |-> prefix, pkey_low |-> low, pkey_high |-> high,
               context_str |-> ctx],
     cl |-> <<>>]

SrcInfo(cl) == [flavor |-> "CIL_SRC_INFO", data |-> [kind |-> "CIL_KEY_SRC_CIL"], cl |-> cl]

Root(cl) == [flavor |-> "CIL_ROOT", data |-> [kind |-> "root"], cl |-> <<SrcInfo(cl)>>]

(***************************************************************************)
(* diff.c : the diff tree.  A node names its left and right comparison     *)
(* node, its child nodes and its diff records, both in append order.       *)
(* aborted records that the process died in an assertion or on a NULL      *)
(* pointer while this part of the tree was being filled.                   *)
(***************************************************************************)

diff_tree_create(left_root, right_root) ==
    [left_node |-> left_root.id, right_node |-> right_root.id,
     children |-> <<>>, diffs |-> <<>>, aborted |-> FALSE]

\* the child is linked at the tail of the parent's child list
diff_tree_append_child(diff_node_parent, child) ==
    [diff_node_parent EXCEPT !.children = Append(@, child),
                             !.aborted = @ \/ child.aborted]

\* a record that is filed under the side the node does not come from
diff_tree_append_diff_other_side(diff_node, side, node) ==
    [diff_node EXCEPT !.diffs = Append(@, [side |-> IF side = "LEFT" THEN "RIGHT" ELSE "LEFT",
                                           node |-> node.id])]

\* the record is linked at the tail of the node's record list
diff_tree_append_diff(diff_node, side, node) ==
    [diff_node EXCEPT !.diffs = Append(@, [side |-> side, node |-> node.id])]

Abort(diff_node) == [diff_node EXCEPT !.aborted = TRUE]

(***************************************************************************)
(* cmp_common.c : similarity counters                                      *)
(***************************************************************************)

SIM_ZERO == [common |-> 0, left |-> 0, right |-> 0]

cmp_sim_add(a, b) ==
    [common |-> a.common + b.common, left |-> a.left + b.left, right |-> a.right + b.right]

\* cmp_sim_rate is common / (common + left + right) in double arithmetic:
\* a sim with all counters zero has the rate 0.0 / 0 = NaN
RateIsNaN(sim) == sim.common + sim.left + sim.right = 0

\* every comparison with NaN is false, so NaN compares equal to everything
cmp_sim_cmp(sim1, sim2) ==
    IF RateIsNaN(sim1) \/ RateIsNaN(sim2) THEN 0
    ELSE LET t1 == sim1.common + sim1.left + sim1.right
             t2 == sim2.common + sim2.left + sim2.right
         IN Sign(sim1.common * t2 - sim2.common * t1)

\* a comparator that sorts the pairs by ascending rate
sim_array_item_ascending_cmp(item1, item2) == cmp_sim_cmp(item1.sim, item2.sim)

sim_array_item_qsort_cmp(item1, item2) == 0 - cmp_sim_cmp(item1.sim, item2.sim)

RECURSIVE merge_sims(_, _, _)
\* the merge step of a merge sort; the C standard leaves the order of
\* elements that compare equal to the library: "stable" keeps them in
\* array order, any other value takes the later one first
merge_sims(b1, b2, ties) ==
    IF b1 = <<>> THEN b2
    ELSE IF b2 = <<>> THEN b1
    ELSE LET c == sim_array_item_qsort_cmp(Head(b1), Head(b2))
         IN IF c < 0 \/ (c = 0 /\ ties = "stable")
            THEN <<Head(b1)>> \o merge_sims(Tail(b1), b2, ties)
            ELSE <<Head(b2)>> \o merge_sims(b1, Tail(b2), ties)

RECURSIVE qsort_sims(_, _)
\* qsort(sims, n, sizeof(*sims), &sim_array_item_qsort_cmp)
qsort_sims(sims, ties) ==
    IF Len(sims) <= 1 THEN sims
    ELSE LET n1 == Len(sims) \div 2
         IN merge_sims(qsort_sims(SubSeq(sims, 1, n1), ties),
                       qsort_sims(SubSeq(sims, n1 + 1, Len(sims)), ties), ties)

(***************************************************************************)
(* cmp_set.c, cmp_subset.c, cmp_node.c : similarity                        *)
(*                                                                         *)
(* env holds what the C program leaves to the build and the run: garbage   *)
(* and stale say what the read of the uninitialised subset_sim in          *)
(* set_sim_map yields (the bytes left in its stack slot by the last        *)
(* callback, or some other value), ties is the order qsort gives to        *)
(* elements that compare equal.                                            *)
(***************************************************************************)

MaybeItems(s) == IF s.null THEN <<>> ELSE s.items
MaybeHash(s) == IF s.null THEN NULL_HASH ELSE s.full_hash
MaybeSet(node, i) == IF node.null THEN NULL_SET ELSE node.items[i]
Either(s1, s2) == IF ~s1.null THEN s1 ELSE s2

RECURSIVE subset_sim_map(_, _, _, _, _)
\* hashtab_map(items, &subset_sim_map, &args) from entry i on
subset_sim_map(entries, i, this_side, other_side, sim) ==
    IF i > Len(entries) THEN sim
    ELSE subset_sim_map(entries, i + 1, this_side, other_side,
             IF hashtab_has(MaybeItems(other_side), entries[i].datum.full_hash)
             THEN [sim EXCEPT !.common = @ + 1]
             ELSE IF this_side = "LEFT" THEN [sim EXCEPT !.left = @ + 1]
             ELSE [sim EXCEPT !.right = @ + 1])

cmp_subset_sim(left, right) ==
    IF left.null /\ right.null THEN SIM_ZERO
    ELSE IF cmp_hash_cmp(MaybeHash(left), MaybeHash(right)) = 0
    THEN [common |-> Len(left.items), left |-> 0, right |-> 0]
    ELSE subset_sim_map(MaybeItems(right), 1, "RIGHT", left,
             subset_sim_map(MaybeItems(left), 1, "LEFT", right, SIM_ZERO))

\* what subset_sim holds when the callback reaches cmp_sim_add: on the
\* right side, for a subset the left side has too, nothing was assigned
set_sim_map_subset_sim(this_side, this_subset, other_subset, acc, env) ==
    IF this_side = "LEFT" THEN cmp_subset_sim(this_subset, other_subset)
    ELSE IF other_subset.null THEN cmp_subset_sim(NULL_SUBSET, this_subset)
    ELSE IF env.stale THEN acc.slot
    ELSE env.garbage

\* cmp_sim_add(args->sim, &subset_sim); the stack slot keeps the bytes
set_sim_map_add(acc, subset_sim) ==
    [sim |-> cmp_sim_add(acc.sim, subset_sim), slot |-> subset_sim]

RECURSIVE set_sim_map(_, _, _, _, _, _)
\* hashtab_map(items, &set_sim_map, &args) from entry i on; acc.sim is
\* *args->sim, acc.slot the bytes in the stack slot of subset_sim
set_sim_map(entries, i, this_side, other_set, acc, env) ==
    IF i > Len(entries) THEN acc
    ELSE set_sim_map(entries, i + 1, this_side, other_set,
             set_sim_map_add(acc,
                 set_sim_map_subset_sim(
                     this_side, entries[i].datum,
                     hashtab_search(MaybeItems(other_set), entries[i].key, NULL_SUBSET),
                     acc, env)),
             env)

cmp_set_sim(left, right, env) ==
    set_sim_map(MaybeItems(right), 1, "RIGHT", left,
                set_sim_map(MaybeItems(left), 1, "LEFT", right,
                            [sim |-> SIM_ZERO, slot |-> env.garbage], env),
                env).sim

cmp_node_sim_container(left, right, env) ==
    cmp_set_sim(MaybeSet(left, 1), MaybeSet(right, 1), env)

cmp_node_sim_cond_container(left, right, env) ==
    cmp_sim_add(cmp_set_sim(MaybeSet(left, 1), MaybeSet(right, 1), env),
                cmp_set_sim(MaybeSet(left, 2), MaybeSet(right, 2), env))

\* the result when the default branch reads the hash of a NULL node
SIM_CRASH == [common |-> 0, left |-> 0, right |-> 0, crash |-> TRUE]

cmp_node_sim(left, right, env) ==
    IF left.null /\ right.null THEN SIM_ZERO
    ELSE IF cmp_node_get_def(Either(left, right).flavor).sim = "container"
    THEN cmp_node_sim_container(left, right, env)
    ELSE IF cmp_node_get_def(Either(left, right).flavor).sim = "cond_container"
    THEN cmp_node_sim_cond_container(left, right, env)
    ELSE IF left.null \/ right.null THEN SIM_CRASH
    ELSE IF cmp_hash_cmp(left.full_hash, right.full_hash) # 0
    THEN [common |-> 0, left |-> IF right.null THEN 1 ELSE 0,
          right |-> IF left.null THEN 1 ELSE 0]
    ELSE [common |-> 1, left |-> 0, right |-> 0]

(***************************************************************************)
(* cmp_node.c, cmp_set.c, cmp_subset.c, cmp_subset_defs.c : comparison.    *)
(* Every operator takes the diff-tree node it writes to and yields that    *)
(* node after the call.                                                    *)
(***************************************************************************)

\* subset_defs[]: the comparator registered for the flavor of a subset
cmp_subset_get_def(flavor) ==
    CASE flavor \in {"CIL_ROOT", "CIL_SRC_INFO"} -> "container_single_jump_node"
      [] flavor \in {"CIL_BLOCK", "CIL_MACRO"} -> "container_single"
      [] flavor \in {"CIL_BOOLEANIF", "CIL_TUNABLEIF", "CIL_OPTIONAL", "CIL_IN"} -> "container_sim"
      [] OTHER -> "none"

RECURSIVE cmp_node_compare(_, _, _, _)
RECURSIVE cmp_set_compare(_, _, _, _)
RECURSIVE cmp_subset_compare(_, _, _, _)
RECURSIVE set_compare_map(_, _, _, _, _, _)
RECURSIVE sim_pair_walk(_, _, _, _, _, _, _, _)
RECURSIVE set_compare_map_subset(_, _, _, _, _)

\* a walk that files no record
subset_compare_map_silent(entries, i, this_side, other_side, diff_node) == diff_node

RECURSIVE subset_compare_map(_, _, _, _, _)
\* the default strategy: a record for every member the other side lacks
subset_compare_map(entries, i, this_side, other_side, diff_node) ==
    IF i > Len(entries) THEN diff_node
    ELSE subset_compare_map(entries, i + 1, this_side, other_side,
             IF hashtab_has(MaybeItems(other_side), entries[i].datum.full_hash)
             THEN diff_node
             ELSE diff_tree_append_diff(diff_node, this_side, entries[i].datum))

\* assert(!left != !right || (left->items->nel == 1 && right->items->nel == 1))
single_assert(left, right) ==
    (left.null # right.null) \/ (Len(left.items) = 1 /\ Len(right.items) = 1)

\* MAYBE(subset, items->htable[0]->datum)
single_member(subset) ==
    IF subset.null THEN NULL_NODE ELSE htable0(subset.items, subset.size, NULL_NODE)

\* items->htable[0] is NULL and is dereferenced
single_crash(subset) == ~subset.null /\ single_member(subset).null

\* the descent of two single members under a new child node
single_descent_under_child(left, right, diff_node, env) ==
    diff_tree_append_child(diff_node,
        cmp_node_compare(single_member(left), single_member(right),
                         diff_tree_create(single_member(left), single_member(right)), env))

\* the descent continues on the diff node of the caller
cmp_subset_container_single_jump_node_compare(left, right, diff_node, env) ==
    IF ~single_assert(left, right) \/ single_crash(left) \/ single_crash(right)
    THEN Abort(diff_node)
    ELSE cmp_node_compare(single_member(left), single_member(right), diff_node, env)

cmp_subset_container_single_compare(left, right, diff_node, env) ==
    IF ~single_assert(left, right) \/ single_crash(left) \/ single_crash(right)
    THEN Abort(diff_node)
    ELSE LET left_node == single_member(left)
             right_node == single_member(right)
         IN IF ~left_node.null /\ ~right_node.null
            THEN diff_tree_append_child(diff_node,
                     cmp_node_compare(left_node, right_node,
                                      diff_tree_create(left_node, right_node), env))
            ELSE IF ~left_node.null THEN diff_tree_append_diff(diff_node, "LEFT", left_node)
            ELSE diff_tree_append_diff(diff_node, "RIGHT", right_node)

RECURSIVE container_sim_compare_map(_, _, _, _)
\* the members of this side whose full hash the other side does not hold
container_sim_compare_map(entries, i, other_side, unique) ==
    IF i > Len(entries) THEN unique
    ELSE container_sim_compare_map(entries, i + 1, other_side,
             IF hashtab_has(MaybeItems(other_side), entries[i].datum.full_hash)
             THEN unique
             ELSE Append(unique, entries[i].datum))

RECURSIVE append_diffs_unfiltered(_, _, _, _)
\* a record for every node of the list, paired or not
append_diffs_unfiltered(diff_node, side, nodes, paired) ==
    IF nodes = <<>> THEN diff_node
    ELSE diff_tree_append_diff(
             append_diffs_unfiltered(diff_node, side, SubSeq(nodes, 1, Len(nodes) - 1), paired),
             side, nodes[Len(nodes)])

RECURSIVE append_diffs(_, _, _, _)
\* a record for every node of the list that is not in the set of paired indexes
append_diffs(diff_node, side, nodes, paired) ==
    IF nodes = <<>> THEN diff_node
    ELSE LET rest == append_diffs(diff_node, side, SubSeq(nodes, 1, Len(nodes) - 1), paired)
         IN IF (Len(nodes) - 1) \in paired THEN rest
            ELSE diff_tree_append_diff(rest, side, nodes[Len(nodes)])

\* the walk over the sorted array: a pair whose two nodes are both still
\* unpaired is compared under a new child node and both are taken out
sim_pair_walk(sims, i, unique_left, unique_right, pl, pr, diff_node, env) ==
    IF i > Len(sims)
    THEN append_diffs(append_diffs(diff_node, "LEFT", unique_left, pl),
                      "RIGHT", unique_right, pr)
    ELSE IF sims[i].left_i \in pl \/ sims[i].right_i \in pr
    THEN sim_pair_walk(sims, i + 1, unique_left, unique_right, pl, pr, diff_node, env)
    ELSE LET left_node == unique_left[sims[i].left_i + 1]
             right_node == unique_right[sims[i].right_i + 1]
         IN sim_pair_walk(sims, i + 1, unique_left, unique_right,
                pl \cup {sims[i].left_i}, pr \cup {sims[i].right_i},
                diff_tree_append_child(diff_node,
                    cmp_node_compare(left_node, right_node,
                                     diff_tree_create(left_node, right_node), env)),
                env)

\* sims[left_i * unique_right_count + right_i]
sim_array(unique_left, unique_right, env) ==
    [k \in 1..(Len(unique_left) * Len(unique_right)) |->
        [sim |-> cmp_node_sim(unique_left[((k - 1) \div Len(unique_right)) + 1],
                              unique_right[((k - 1) % Len(unique_right)) + 1], env),
         left_i |-> (k - 1) \div Len(unique_right),
         right_i |-> (k - 1) % Len(unique_right)]]

\* a comparator that pairs nothing and files every unique member as a record
container_sim_compare_unpaired(unique_left, unique_right, diff_node, env) ==
    append_diffs(append_diffs(diff_node, "LEFT", unique_left, {}), "RIGHT", unique_right, {})

\* the part of the comparator after the two lists of unique members are made
container_sim_compare_unique(unique_left, unique_right, diff_node, env) ==
    IF Len(unique_left) = 0 \/ Len(unique_right) = 0
    THEN append_diffs(append_diffs(diff_node, "LEFT", unique_left, {}),
                      "RIGHT", unique_right, {})
    ELSE sim_pair_walk(qsort_sims(sim_array(unique_left, unique_right, env), env.ties), 1,
                       unique_left, unique_right, {}, {}, diff_node, env)

cmp_subset_container_sim_compare(left, right, diff_node, env) ==
    container_sim_compare_unique(
        container_sim_compare_map(MaybeItems(left), 1, right, <<>>),
        container_sim_compare_map(MaybeItems(right), 1, left, <<>>),
        diff_node, env)

cmp_subset_compare(left, right, diff_node, env) ==
    IF diff_node.aborted \/ (left.null /\ right.null) THEN diff_node
    ELSE IF ~left.null /\ ~right.null /\ left.flavor # right.flavor THEN Abort(diff_node)
    ELSE IF cmp_hash_cmp(MaybeHash(left), MaybeHash(right)) = 0 THEN diff_node
    ELSE LET def == cmp_subset_get_def(Either(left, right).flavor)
         IN IF def = "container_single_jump_node"
            THEN cmp_subset_container_single_jump_node_compare(left, right, diff_node, env)
            ELSE IF def = "container_single"
            THEN cmp_subset_container_single_compare(left, right, diff_node, env)
            ELSE IF def = "container_sim"
            THEN cmp_subset_container_sim_compare(left, right, diff_node, env)
            ELSE subset_compare_map(MaybeItems(right), 1, "RIGHT", left,
                     subset_compare_map(MaybeItems(left), 1, "LEFT", right, diff_node))

\* a callback that compares in the right pass what the left pass compared
set_compare_map_subset_both_passes(this_side, this_subset, other_subset, diff_node, env) ==
    IF this_side = "LEFT" THEN cmp_subset_compare(this_subset, other_subset, diff_node, env)
    ELSE cmp_subset_compare(other_subset, this_subset, diff_node, env)

\* the callback once the subset of the other side has been looked up: the
\* right side compares only what the left side does not have
set_compare_map_subset(this_side, this_subset, other_subset, diff_node, env) ==
    IF this_side = "LEFT" THEN cmp_subset_compare(this_subset, other_subset, diff_node, env)
    ELSE IF other_subset.null THEN cmp_subset_compare(NULL_SUBSET, this_subset, diff_node, env)
    ELSE diff_node

\* hashtab_map(items, &set_compare_map, &args) from entry i on
set_compare_map(entries, i, this_side, other_set, diff_node, env) ==
    IF i > Len(entries) THEN diff_node
    ELSE set_compare_map(entries, i + 1, this_side, other_set,
             set_compare_map_subset(
                 this_side, entries[i].datum,
                 hashtab_search(MaybeItems(other_set), entries[i].key, NULL_SUBSET),
                 diff_node, env),
             env)

cmp_set_compare(left, right, diff_node, env) ==
    IF cmp_hash_cmp(MaybeHash(left), MaybeHash(right)) = 0 THEN diff_node
    ELSE set_compare_map(MaybeItems(right), 1, "RIGHT", left,
             set_compare_map(MaybeItems(left), 1, "LEFT", right, diff_node, env), env)

cmp_node_compare_container(left, right, diff_node, env) ==
    cmp_set_compare(MaybeSet(left, 1), MaybeSet(right, 1), diff_node, env)

\* a comparison that looks at the false branch only
cmp_node_compare_false_branch(left, right, diff_node, env) ==
    cmp_set_compare(MaybeSet(left, 1), MaybeSet(right, 1), diff_node, env)

cmp_node_compare_cond_container(left, right, diff_node, env) ==
    cmp_set_compare(MaybeSet(left, 2), MaybeSet(right, 2),
        cmp_set_compare(MaybeSet(left, 1), MaybeSet(right, 1), diff_node, env), env)

cmp_node_compare(left, right, diff_node, env) ==
    IF diff_node.aborted THEN diff_node
    ELSE IF (left.null /\ right.null)
            \/ (~left.null /\ ~right.null /\ left.flavor # right.flavor)
    THEN Abort(diff_node)
    ELSE LET def == cmp_node_get_def(Either(left, right).flavor)
         IN IF def.compare = "container"
            THEN cmp_node_compare_container(left, right, diff_node, env)
            ELSE IF def.compare = "cond_container"
            THEN cmp_node_compare_cond_container(left, right, diff_node, env)
            ELSE diff_node

(***************************************************************************)
(* utils.c, cildiff.c : reading and loading an input file.  A file on disk *)
(* is described by what the system calls and libraries do with it:         *)
(*   exists      fopen succeeds                                            *)
(*   ferror      the stream reports a read error                           *)
(*   compressed  the file starts with the bzip2 magic "BZh"                *)
(*   bz          "ok", "open_fail" (BZ2_bzReadOpen fails) or "mid_fail"    *)
(*               (BZ2_bzRead fails after cut statements were decompressed, *)
(*               torn says that the data ends inside a statement)          *)
(*   syntax_ok   the CIL parser accepts the whole text                     *)
(*   build_ok    the AST builder accepts the parse tree                    *)
(*   stmts       the statements of the text                                *)
(***************************************************************************)

\* read_compressed_file: BZ2_bzReadClose stores BZ_OK in bzerror on its way
\* out, so only a failed BZ2_bzReadOpen is reported to the caller
read_compressed_file(file) ==
    IF file.bz = "open_fail"
    THEN [rc |-> -1, stmts |-> <<>>, torn |-> FALSE, errors |-> <<"Failed to decompress file">>]
    ELSE IF file.bz = "mid_fail"
    THEN [rc |-> 0, stmts |-> SubSeq(file.stmts, 1, file.cut), torn |-> file.torn,
          errors |-> <<"Failed to decompress file">>]
    ELSE [rc |-> 0, stmts |-> file.stmts, torn |-> FALSE, errors |-> <<>>]

read_text_file(file) ==
    IF file.ferror
    THEN [rc |-> -1, stmts |-> <<>>, torn |-> FALSE, errors |-> <<"Failed to read file">>]
    ELSE [rc |-> 0, stmts |-> file.stmts, torn |-> FALSE, errors |-> <<>>]

file_read(file) ==
    IF ~file.exists
    THEN [rc |-> -1, stmts |-> <<>>, torn |-> FALSE, errors |-> <<"Failed open file">>]
    ELSE IF file.ferror
    THEN [rc |-> -1, stmts |-> <<>>, torn |-> FALSE, errors |-> <<"Failed to read file">>]
    ELSE IF file.compressed THEN read_compressed_file(file)
    ELSE read_text_file(file)

\* load_cil_file: file_read, cil_add_file (the parser), cil_build_ast
load_cil_file(file) ==
    LET data == file_read(file)
    IN IF data.rc # 0 THEN [rc |-> -1, ast |-> Root(<<>>), errors |-> data.errors]
       ELSE IF data.torn \/ ~file.syntax_ok
       THEN [rc |-> -1, ast |-> Root(<<>>), errors |-> data.errors \o <<"Failed to parse">>]
       ELSE IF ~file.build_ok
       THEN [rc |-> -1, ast |-> Root(<<>>),
             errors |-> data.errors \o <<"Failed to build CIL AST">>]
       ELSE [rc |-> 0, ast |-> Root(data.stmts), errors |-> data.errors]

(***************************************************************************)
(* diff.c : the plain-text report                                          *)
(***************************************************************************)

\* a report that calls a left record a deletion and a right record an addition
diff_print_swapped(parent, diff) ==
    [label |-> IF diff.side = "LEFT" THEN "Deletion" ELSE "Addition",
     marker |-> IF diff.side = "LEFT" THEN "---" ELSE "+++",
     node |-> diff.node,
     left_context |-> parent.left_node, right_context |-> parent.right_node]

\* the comment lines diff_print writes around the rendering of the node
diff_print(parent, diff) ==
    [label |-> IF diff.side = "LEFT" THEN "Addition" ELSE "Deletion",
     marker |-> IF diff.side = "LEFT" THEN "+++" ELSE "---",
     node |-> diff.node,
     left_context |-> parent.left_node, right_context |-> parent.right_node]

RECURSIVE diff_tree_print(_)
RECURSIVE diff_tree_print_children(_)

diff_tree_print_children(children) ==
    IF children = <<>> THEN <<>>
    ELSE diff_tree_print(Head(children)) \o diff_tree_print_children(Tail(children))

\* the children first, then the records of the node itself
diff_tree_print(root) ==
    diff_tree_print_children(root.children)
        \o [i \in DOMAIN root.diffs |-> diff_print(root, root.diffs[i])]

(***************************************************************************)
(* The inputs: policies over a small vocabulary.  The AST builder rejects  *)
(* a container that declares one name twice, so such texts never reach the *)
(* comparison.                                                             *)
(***************************************************************************)

\* the largest number of statements directly in one input file
MaxStmts == 2

rule1 == Allow("A", "B", "C", <<"D">>)
rule2 == Allow("A", "B", "C", <<"E">>)
rule3 == Allow("A", "B", "C", <<"F">>)
rule12 == Allow("A", "B", "C", <<"D", "E">>)
rule21 == Allow("A", "B", "C", <<"E", "D">>)

CondTrue(cl) == CondBlock("CIL_CONDTRUE", cl)
CondFalse(cl) == CondBlock("CIL_CONDFALSE", cl)
ParamX == [flavor |-> "CIL_TYPE", str |-> "x"]

FlatPool == {Type("T"), rule12, rule21}

OptionalPool ==
    {Optional("o1", <<rule1, rule3>>), Optional("o2", <<rule2>>), Optional("o1", <<rule1>>),
     Optional("o2", <<rule3, rule2>>), Optional("o2", <<rule1>>)}

CondPool == {BooleanIf("b", <<CondTrue(<<rule1>>)>>), BooleanIf("b", <<CondTrue(<<rule2>>)>>)}

BlockPool ==
    {Block("b", <<rule1>>), Block("b", <<rule2>>),
     Macro("m", <<>>, <<rule1>>), Macro("m", <<ParamX>>, <<rule1>>)}

IbPool == {IbPkeyCon("P", 1, 2, "ctx"), IbPkeyCon("P", 1, 3, "ctx")}

NestedPolicies ==
    {<<Block("b", <<Optional("o1", <<rule1>>), Type("T")>>)>>,
     <<Block("b", <<Optional("o1", <<rule2>>), Type("T")>>)>>,
     <<Block("b", <<Optional("o2", <<rule1, rule2>>)>>), rule1>>,
     <<Optional("o1", <<BooleanIf("b", <<CondTrue(<<rule1>>)>>), Type("T")>>)>>,
     <<Optional("o1", <<BooleanIf("b", <<CondTrue(<<rule2>>)>>)>>), Type("T")>>,
     <<BooleanIf("b", <<CondTrue(<<rule1>>), CondFalse(<<rule2>>)>>)>>,
     <<BooleanIf("b", <<CondFalse(<<rule2>>), CondTrue(<<rule1>>)>>)>>,
     <<BooleanIf("b", <<CondFalse(<<rule1>>), CondTrue(<<rule2>>)>>)>>,
     <<BooleanIf("b", <<CondFalse(<<rule2>>)>>), rule1>>}

DeclFlavors == {"CIL_TYPE", "CIL_BLOCK", "CIL_MACRO", "CIL_OPTIONAL", "CIL_CLASS",
                "CIL_MAP_CLASS"}

\* no two statements of the list declare the same name
UniqueDecls(cl) ==
    \A i, j \in DOMAIN cl :
        (i < j /\ cl[i].flavor \in DeclFlavors /\ cl[j].flavor = cl[i].flavor)
            => cl[i].data.name # cl[j].data.name

SeqsUpTo(S, n) == UNION {[1..k -> S] : k \in 0..n}

Policies(pool) == {cl \in SeqsUpTo(pool, MaxStmts) : UniqueDecls(cl)}

GoodFile(stmts) ==
    [exists |-> TRUE, ferror |-> FALSE, compressed |-> FALSE, bz |-> "ok", cut |-> 0,
     torn |-> FALSE, syntax_ok |-> TRUE, build_ok |-> TRUE, stmts |-> stmts]

\* files that make one of the steps of load_cil_file fail, and a sound
\* compressed file
OddFiles(stmts) ==
    {[GoodFile(stmts) EXCEPT !.exists = FALSE],
     [GoodFile(stmts) EXCEPT !.ferror = TRUE],
     [GoodFile(stmts) EXCEPT !.compressed = TRUE],
     [GoodFile(stmts) EXCEPT !.compressed = TRUE, !.bz = "open_fail"],
     [GoodFile(stmts) EXCEPT !.compressed = TRUE, !.bz = "mid_fail", !.cut = Len(stmts) - 1],
     [GoodFile(stmts) EXCEPT !.compressed = TRUE, !.bz = "mid_fail", !.cut = Len(stmts) - 1,
                             !.torn = TRUE],
     [GoodFile(stmts) EXCEPT !.syntax_ok = FALSE],
     [GoodFile(stmts) EXCEPT !.build_ok = FALSE]}

Families == {Policies(FlatPool), Policies(OptionalPool), Policies(CondPool),
             Policies(BlockPool), Policies(IbPool),
             Policies({Unregistered("n"), Optional("o1", <<Unregistered("n")>>), Type("T")}),
             Policies({In("b", <<rule1, rule2>>), In("b", <<rule1, rule3>>), In("b", <<rule3>>)}),
             Policies({Class("c", <<"p">>), Class("c", <<"p", "q">>), Type("T")}),
             Policies({Class("c", <<"p">>),
                       [Class("c", <<"p">>) EXCEPT !.flavor = "CIL_MAP_CLASS",
                                                   !.cl[1].flavor = "CIL_MAP_PERM"],
                       rule1,
                       [rule1 EXCEPT !.flavor = "CIL_AVRULEX",
                                     !.data = [is_extended |-> 1, rule_kind |-> 1, src_str |-> "A",
                                               tgt_str |-> "B", permx_str |-> "px"]]}),
             Policies({SrcInfo(<<rule1>>), SrcInfo(<<rule2>>)}),
             NestedPolicies}

\* the pairs of input files of a run
Inputs ==
    UNION {{<<GoodFile(l), GoodFile(r)>> : l \in F, r \in F} : F \in Families}
    \cup UNION {{<<f, GoodFile(<<rule1>>)>>, <<GoodFile(<<rule1>>), f>>, <<f, f>>} :
                    f \in OddFiles(<<Type("T"), rule1>>)}

\* what a build and a run may make of the behaviour C leaves undefined
SIM_JUNK == [common |-> 0, left |-> 3, right |-> 0]
Envs ==
    {[garbage |-> SIM_ZERO, stale |-> FALSE, ties |-> "stable"],
     [garbage |-> SIM_ZERO, stale |-> FALSE, ties |-> "reverse"],
     [garbage |-> SIM_ZERO, stale |-> TRUE, ties |-> "stable"],
     [garbage |-> SIM_JUNK, stale |-> FALSE, ties |-> "stable"]}

(***************************************************************************)
(* cildiff.c : main                                                        *)
(***************************************************************************)

VARIABLES pc, options, left_file, right_file, left_db, right_db, left_root, right_root,
          diff_root, out, err, exit_status, second_diff, swapped_diff

vars == <<pc, options, left_file, right_file, left_db, right_db, left_root, right_root,
          diff_root, out, err, exit_status, second_diff, swapped_diff>>

NULL_DB == [null |-> TRUE]
NULL_DIFF == [null |-> TRUE]

\* main after parse_options accepted the command line
Init ==
    /\ pc = "start"
    /\ \E in \in Inputs : left_file = in[1] /\ right_file = in[2]
    /\ options \in {[json |-> FALSE], [json |-> TRUE]}
    /\ (options.json => left_file.stmts \in NestedPolicies \/ ~left_file.exists)
    /\ left_db = NULL_DB /\ right_db = NULL_DB
    /\ left_root = NULL_NODE /\ right_root = NULL_NODE
    /\ diff_root = NULL_DIFF /\ second_diff = NULL_DIFF /\ swapped_diff = NULL_DIFF
    /\ out = <<>> /\ err = <<>>
    /\ exit_status = "EXIT_FAILURE"

\* load_cil_file(left_db, options.left_path)
LoadLeft ==
    /\ pc = "start"
    /\ LET r == load_cil_file(left_file)
       IN /\ err' = err \o r.errors
          /\ left_db' = IF r.rc = 0 THEN r.ast ELSE left_db
          /\ pc' = IF r.rc = 0 THEN "left_loaded" ELSE "exit"
    /\ UNCHANGED <<options, left_file, right_file, right_db, left_root, right_root, diff_root,
                   out, exit_status, second_diff, swapped_diff>>

\* load_cil_file(right_db, options.right_path)
LoadRight ==
    /\ pc = "left_loaded"
    /\ LET r == load_cil_file(right_file)
       IN /\ err' = err \o r.errors
          /\ right_db' = IF r.rc = 0 THEN r.ast ELSE right_db
          /\ pc' = IF r.rc = 0 THEN "loaded" ELSE "exit"
    /\ UNCHANGED <<options, left_file, right_file, left_db, left_root, right_root, diff_root,
                   out, exit_status, second_diff, swapped_diff>>

\* the two cmp_node_create calls and the two hash lines of the text report;
\* error(EXIT_FAILURE, ...) in cmp_data_init ends the process with status 1
CreateRoots ==
    /\ pc = "loaded"
    /\ left_root' = IF cmp_node_create_exits(left_db) THEN left_root
                    ELSE cmp_node_create(left_db, <<>>)
    /\ right_root' = IF cmp_node_create_exits(left_db) \/ cmp_node_create_exits(right_db)
                     THEN right_root
                     ELSE cmp_node_create(right_db, <<>>)
    /\ out' = IF options.json \/ right_root'.null THEN out
              ELSE out \o <<[label |-> "Left hash", hash |-> left_root'.full_hash],
                            [label |-> "Right hash", hash |-> right_root'.full_hash]>>
    /\ err' = IF right_root'.null THEN err \o <<"Encountered an unknown node type">> ELSE err
    /\ pc' = IF right_root'.null THEN "exit" ELSE "created"
    /\ UNCHANGED <<options, left_file, right_file, left_db, right_db, diff_root,
                   exit_status, second_diff, swapped_diff>>

\* the diff tree of two roots: diff_tree_create and cmp_node_compare
diff_roots(left, right, env) ==
    cmp_node_compare(left, right, diff_tree_create(left, right), env)

\* diff_tree_create and cmp_node_compare; a failed assertion ends the process
Compare ==
    /\ pc = "created"
    /\ \E env \in Envs : diff_root' = diff_roots(left_root, right_root, env)
    /\ pc' = IF diff_root'.aborted THEN "exit" ELSE "compared"
    /\ exit_status' = IF diff_root'.aborted THEN "SIGABRT" ELSE exit_status
    /\ UNCHANGED <<options, left_file, right_file, left_db, right_db, left_root, right_root,
                   out, err, second_diff, swapped_diff>>

\* json_print_diff_tree or diff_tree_print
PrintDiff ==
    /\ pc = "compared"
    /\ out' = out \o (IF options.json THEN <<[json |-> diff_root]>>
                      ELSE diff_tree_print(diff_root))
    /\ pc' = "printed"
    /\ UNCHANGED <<options, left_file, right_file, left_db, right_db, left_root, right_root,
                   diff_root, err, exit_status, second_diff, swapped_diff>>

\* the trees are destroyed and main returns EXIT_SUCCESS
Finish ==
    /\ pc = "printed"
    /\ exit_status' = "EXIT_SUCCESS"
    /\ pc' = "exit"
    /\ UNCHANGED <<options, left_file, right_file, left_db, right_db, left_root, right_root,
                   diff_root, out, err, second_diff, swapped_diff>>

\* the tree build and comparison of one more run of the tool on two ASTs
Run(l, r, env) == diff_roots(cmp_node_create(l, <<>>), cmp_node_create(r, <<>>), env)

\* the tool is run once more on the same two files
SecondRun ==
    /\ pc = "exit" /\ exit_status = "EXIT_SUCCESS"
    /\ \E env \in Envs : second_diff' = Run(left_db, right_db, env)
    /\ pc' = "second"
    /\ UNCHANGED <<options, left_file, right_file, left_db, right_db, left_root, right_root,
                   diff_root, out, err, exit_status, swapped_diff>>

\* the tool is run once more with the two files exchanged
SwappedRun ==
    /\ pc = "exit" /\ exit_status = "EXIT_SUCCESS"
    /\ \E env \in Envs : swapped_diff' = Run(right_db, left_db, env)
    /\ pc' = "swapped"
    /\ UNCHANGED <<options, left_file, right_file, left_db, right_db, left_root, right_root,
                   diff_root, out, err, exit_status, second_diff>>

Next ==
    \/ LoadLeft
    \/ LoadRight
    \/ CreateRoots
    \/ Compare
    \/ PrintDiff
    \/ Finish
    \/ SecondRun
    \/ SwappedRun

Spec == Init /\ [][Next]_vars

(***************************************************************************)
(* Properties                                                              *)
(***************************************************************************)

RECURSIVE CountDiffs(_)
RECURSIVE CountDiffsIn(_)
CountDiffsIn(children) ==
    IF children = <<>> THEN 0 ELSE CountDiffs(Head(children)) + CountDiffsIn(Tail(children))

\* the number of diff records of a diff tree, all levels together
CountDiffs(tree) == Len(tree.diffs) + CountDiffsIn(tree.children)

\* the statements of an input AST: the children of its src_info node
Stmts(db) == db.cl[1].cl

\* C1 (reflexivity): when both comparison roots are built from the same AST,
\* the two root full hashes are equal and the diff tree that cmp_node_compare
\* fills has no diff record at any level.
C1_Reflexivity ==
    (diff_root # NULL_DIFF /\ left_db = right_db)
        => /\ left_root.full_hash = right_root.full_hash
           /\ CountDiffs(diff_root) = 0

\* an AST with two optionals has been compared with itself
C1_Witness ==
    /\ diff_root # NULL_DIFF
    /\ left_db = right_db
    /\ Len(Stmts(left_db)) = 2
    /\ Stmts(left_db)[1].flavor = "CIL_OPTIONAL"
    /\ Len(Stmts(left_db)[1].cl) = 2

FlipSide(side) == IF side = "LEFT" THEN "RIGHT" ELSE "LEFT"

RECURSIVE Mirror(_)
\* the diff tree with the two sides exchanged at every level
Mirror(tree) ==
    [left_node |-> tree.right_node, right_node |-> tree.left_node,
     children |-> [i \in DOMAIN tree.children |-> Mirror(tree.children[i])],
     diffs |-> [i \in DOMAIN tree.diffs |->
                    [side |-> FlipSide(tree.diffs[i].side), node |-> tree.diffs[i].node]],
     aborted |-> tree.aborted]

RECURSIVE Canon(_)
\* the structure of a diff tree without the order of children and of records
Canon(tree) ==
    [left_node |-> tree.left_node, right_node |-> tree.right_node,
     child_count |-> Len(tree.children),
     children |-> {Canon(tree.children[i]) : i \in DOMAIN tree.children},
     diff_count |-> Len(tree.diffs),
     diffs |-> {tree.diffs[i] : i \in DOMAIN tree.diffs},
     aborted |-> tree.aborted]

\* C2 (side symmetry): comparing (R, L) gives the diff tree of (L, R) with
\* every record's side flipped and every diff node's left and right nodes
\* exchanged: the same levels, the same matched pairs, the same records at
\* each level.
C2_SideSymmetry ==
    pc = "swapped" => Canon(swapped_diff) = Canon(Mirror(diff_root))

Range(seq) == {seq[i] : i \in DOMAIN seq}

\* a sequence as a multiset: its elements with their multiplicities
BagOf(seq) == {<<x, Cardinality({i \in DOMAIN seq : seq[i] = x})>> : x \in Range(seq)}

RECURSIVE NormExpr(_)
\* an expression with its operands taken as a multiset
NormExpr(expr) ==
    LET hasOp == expr.items # <<>> /\ Head(expr.items).flavor = "CIL_OP"
        rest == IF hasOp THEN Tail(expr.items) ELSE expr.items
        NormItem(item) == IF item.flavor = "CIL_LIST"
                          THEN [flavor |-> "CIL_LIST", list |-> NormExpr(item.list)]
                          ELSE item
    IN [flavor |-> expr.flavor,
        op |-> IF hasOp THEN Head(expr.items).op ELSE "none",
        operands |-> BagOf([i \in DOMAIN rest |-> NormItem(rest[i])])]

\* the fields of a statement with every expression field normalised
NormData(node) ==
    IF node.flavor = "CIL_AVRULE"
    THEN [node.data EXCEPT !.classperms.perm_strs = NormExpr(@)]
    ELSE IF node.flavor \in {"CIL_BOOLEANIF", "CIL_TUNABLEIF"}
    THEN [str_expr |-> NormExpr(node.data.str_expr)]
    ELSE node.data

RECURSIVE Normalise(_)
\* an AST with the children of every container taken as a set
Normalise(node) ==
    [flavor |-> node.flavor, data |-> NormData(node),
     cl |-> {Normalise(node.cl[i]) : i \in DOMAIN node.cl}]

\* C3 (hash equality is structural equality): two ASTs have equal root full
\* hashes if and only if they are identical after normalisation (children of
\* a container as a duplicate-free unordered collection, operands of an
\* expression as a multiset); a difference in any field of any statement
\* gives different root full hashes.
C3_HashIffNormalised ==
    (left_root # NULL_NODE /\ right_root # NULL_NODE)
        => ((cmp_hash_cmp(left_root.full_hash, right_root.full_hash) = 0)
               <=> (Normalise(left_db) = Normalise(right_db)))

\* the comparison has run on a left policy that is one optional o1 and a
\* right policy that is one optional o2 with the same body (scenario S4)
S4 ==
    /\ diff_root # NULL_DIFF
    /\ Len(Stmts(left_db)) = 1 /\ Len(Stmts(right_db)) = 1
    /\ Stmts(left_db)[1].flavor = "CIL_OPTIONAL" /\ Stmts(right_db)[1].flavor = "CIL_OPTIONAL"
    /\ Stmts(left_db)[1].data.name = "o1" /\ Stmts(right_db)[1].data.name = "o2"
    /\ Stmts(left_db)[1].cl = Stmts(right_db)[1].cl

\* C4 as stated (renamed optional): the two optionals have different partial
\* hashes and the comparison emits exactly one LEFT record (o1) and one RIGHT
\* record (o2) at the root level.
C4_RenameIsAddDelete ==
    S4 => /\ cmp_data_init("CIL_OPTIONAL", Stmts(left_db)[1].data).partial_hash
                 # cmp_data_init("CIL_OPTIONAL", Stmts(right_db)[1].data).partial_hash
          /\ Len(diff_root.diffs) = 2
          /\ Range(diff_root.diffs) = {[side |-> "LEFT", node |-> <<1, 1>>],
                                       [side |-> "RIGHT", node |-> <<1, 1>>]}

\* C4 amended: the two optionals have the same partial hash and different
\* full hashes, similarity matching pairs them, and the diff tree is one
\* child diff node for the pair (o1, o2) with no diff record at any level.
C4_RenameIsPaired ==
    S4 => /\ cmp_data_init("CIL_OPTIONAL", Stmts(left_db)[1].data).partial_hash
                 = cmp_data_init("CIL_OPTIONAL", Stmts(right_db)[1].data).partial_hash
          /\ cmp_data_init("CIL_OPTIONAL", Stmts(left_db)[1].data).full_hash
                 # cmp_data_init("CIL_OPTIONAL", Stmts(right_db)[1].data).full_hash
          /\ ~diff_root.aborted
          /\ CountDiffs(diff_root) = 0
          /\ Len(diff_root.children) = 1
          /\ diff_root.children[1].left_node = <<1, 1>>
          /\ diff_root.children[1].right_node = <<1, 1>>
          /\ diff_root.children[1].children = <<>>

C4_Witness == S4 /\ pc = "compared" /\ Stmts(left_db)[1].cl # <<>>

\* scenario S6 with rule1 = (C (D)), rule2 = (C (F)), rule3 = (C (E)): left
\* holds o1 {rule1, rule2} and o2 {rule3}, right holds o1 {rule1} and
\* o2 {rule2, rule3}
S6 ==
    /\ diff_root # NULL_DIFF
    /\ Stmts(left_db) = <<Optional("o1", <<rule1, rule3>>), Optional("o2", <<rule2>>)>>
    /\ Stmts(right_db) = <<Optional("o1", <<rule1>>), Optional("o2", <<rule3, rule2>>)>>

\* the descents of a diff tree: which nodes each child diff node pairs and
\* which records it carries
Descents(tree) ==
    {[left_node |-> c.left_node, right_node |-> c.right_node, diffs |-> Range(c.diffs),
      diff_count |-> Len(c.diffs), child_count |-> Len(c.children)] :
         c \in Range(tree.children)}

Descent(left_node, right_node, diffs) ==
    [left_node |-> left_node, right_node |-> right_node, diffs |-> diffs,
     diff_count |-> Cardinality(diffs), child_count |-> 0]

\* o1 is paired with o1 and o2 with o2: one record in each descent
S6Straight(tree) ==
    /\ ~tree.aborted /\ tree.diffs = <<>> /\ Len(tree.children) = 2
    /\ Descents(tree) =
           {Descent(<<1, 1>>, <<1, 1>>, {[side |-> "LEFT", node |-> <<1, 1, 2>>]}),
            Descent(<<1, 2>>, <<1, 2>>, {[side |-> "RIGHT", node |-> <<1, 2, 1>>]})}

\* left o1 is paired with right o2 and left o2 with right o1: two records
\* in each descent
S6Crossed(tree) ==
    /\ ~tree.aborted /\ tree.diffs = <<>> /\ Len(tree.children) = 2
    /\ Descents(tree) =
           {Descent(<<1, 1>>, <<1, 2>>, {[side |-> "LEFT", node |-> <<1, 1, 1>>],
                                         [side |-> "RIGHT", node |-> <<1, 2, 2>>]}),
            Descent(<<1, 2>>, <<1, 1>>, {[side |-> "LEFT", node |-> <<1, 2, 1>>],
                                         [side |-> "RIGHT", node |-> <<1, 1, 1>>]})}

\* the read of the uninitialised subset_sim in set_sim_map yields zero
ReadsZero(env) == env.garbage = SIM_ZERO /\ ~env.stale

\* C5 as stated (similarity pairing, S6): the two descents together carry a
\* total of four rule records.
C5_FourRecords ==
    S6 => Len(diff_root.children) = 2 /\ CountDiffs(diff_root) = 4

\* C5 amended: in S6 every optional is paired (two descents, no record at the
\* root).  When the rates are the true ones the pair with the higher rate is
\* matched first, which pairs o1 with o1 and o2 with o2 and leaves two rule
\* records, one in each descent.  Whatever the uninitialised term of the
\* rates is, the outcome is either that one or the crossed pairing with four
\* rule records, two in each descent.
C5_TwoOrFourRecords ==
    S6 => /\ S6Straight(diff_root) \/ S6Crossed(diff_root)
          /\ CountDiffs(diff_root) \in {2, 4}
          /\ \A env \in Envs :
                 LET tree == cmp_node_compare(left_root, right_root,
                                              diff_tree_create(left_root, right_root), env)
                 IN /\ S6Straight(tree) \/ S6Crossed(tree)
                    /\ ReadsZero(env) => S6Straight(tree)

C5_Witness == S6 /\ pc = "compared" /\ S6Straight(diff_root) /\ CountDiffs(diff_root) = 2

\* the only statement of an input policy
OnlyStmt(db) == Stmts(db)[1]

\* one booleanif with only a true branch that holds one allow rule
OneTrueBranch(db) ==
    /\ Len(Stmts(db)) = 1
    /\ OnlyStmt(db).flavor = "CIL_BOOLEANIF"
    /\ Len(OnlyStmt(db).cl) = 1
    /\ OnlyStmt(db).cl[1].data.flavor = "CIL_CONDTRUE"
    /\ Len(OnlyStmt(db).cl[1].cl) = 1
    /\ OnlyStmt(db).cl[1].cl[1].flavor = "CIL_AVRULE"

\* the comparison has run on two such policies with the same condition whose
\* rules differ only in the permission (scenario S5)
S5 ==
    /\ diff_root # NULL_DIFF
    /\ OneTrueBranch(left_db) /\ OneTrueBranch(right_db)
    /\ OnlyStmt(left_db).data = OnlyStmt(right_db).data
    /\ LET l == OnlyStmt(left_db).cl[1].cl[1].data
           r == OnlyStmt(right_db).cl[1].cl[1].data
       IN /\ l.classperms.perm_strs # r.classperms.perm_strs
          /\ [l EXCEPT !.classperms.perm_strs = r.classperms.perm_strs] = r

\* C6 (booleanif branch change, S5): the comparison descends into the
\* booleanif pair, one child diff node, and reports exactly one LEFT record
\* for the left rule and one RIGHT record for the right rule there, with no
\* record at the root level.
C6_BooleanifBranchChange ==
    S5 => /\ ~diff_root.aborted
          /\ diff_root.diffs = <<>>
          /\ Len(diff_root.children) = 1
          /\ diff_root.children[1].left_node = <<1, 1>>
          /\ diff_root.children[1].right_node = <<1, 1>>
          /\ diff_root.children[1].children = <<>>
          /\ Len(diff_root.children[1].diffs) = 2
          /\ Range(diff_root.children[1].diffs) = {[side |-> "LEFT", node |-> <<1, 1, 1, 1>>],
                                                   [side |-> "RIGHT", node |-> <<1, 1, 1, 1>>]}

C6_Witness == S5 /\ pc = "compared"

RECURSIVE RecordsInPrintOrder(_)
RECURSIVE RecordsOfChildren(_)
RecordsOfChildren(children) ==
    IF children = <<>> THEN <<>>
    ELSE RecordsInPrintOrder(Head(children)) \o RecordsOfChildren(Tail(children))

\* the diff records of a tree in the order of the report: those of the child
\* diff nodes first, then those of the node
RecordsInPrintOrder(tree) == RecordsOfChildren(tree.children) \o tree.diffs

\* the plain-text report has been written
TextReported == pc = "printed" /\ ~options.json

\* the entries of the report after the two hash lines
ReportBody == SubSeq(out, 3, Len(out))

\* C7 as stated: in the plain-text report a LEFT record is labelled as a
\* deletion and a RIGHT record as an addition.
C7_LeftIsDeletion ==
    TextReported =>
        LET records == RecordsInPrintOrder(diff_root)
        IN /\ Len(ReportBody) = Len(records)
           /\ \A i \in DOMAIN records :
                  /\ ReportBody[i].node = records[i].node
                  /\ records[i].side = "LEFT" => ReportBody[i].label = "Deletion"
                  /\ records[i].side = "RIGHT" => ReportBody[i].label = "Addition"

\* C7 amended: the plain-text report has one entry per diff record; a LEFT
\* record (node only in the left input) is labelled "Addition" and marked
\* "+++", a RIGHT record (node only in the right input) is labelled
\* "Deletion" and marked "---".
C7_LeftIsAddition ==
    TextReported =>
        LET records == RecordsInPrintOrder(diff_root)
        IN /\ Len(ReportBody) = Len(records)
           /\ \A i \in DOMAIN records :
                  /\ ReportBody[i].node = records[i].node
                  /\ records[i].side = "LEFT"
                         => ReportBody[i].label = "Addition" /\ ReportBody[i].marker = "+++"
                  /\ records[i].side = "RIGHT"
                         => ReportBody[i].label = "Deletion" /\ ReportBody[i].marker = "---"

\* a report with an entry for a LEFT and an entry for a RIGHT record
C7_Witness ==
    /\ TextReported
    /\ \E i, j \in DOMAIN diff_root.diffs :
           diff_root.diffs[i].side = "LEFT" /\ diff_root.diffs[j].side = "RIGHT"
    /\ \E i, j \in DOMAIN ReportBody :
           ReportBody[i].label = "Addition" /\ ReportBody[j].label = "Deletion"

\* the file cannot be opened or read, its decompression fails, or the CIL
\* parser or the AST builder rejects its text
InputError(file) ==
    \/ ~file.exists
    \/ file.ferror
    \/ (file.compressed /\ file.bz # "ok")
    \/ ~file.syntax_ok
    \/ ~file.build_ok

\* C8 (input errors): every input error makes the tool exit non-zero without
\* running a comparison or writing a diff: an input that cannot be opened, a
\* bzip2 input whose decompression fails when the stream is opened or in the
\* middle of the stream, an input the parser or the AST builder rejects.
C8_InputErrorStops ==
    (InputError(left_file) \/ InputError(right_file))
        => /\ diff_root = NULL_DIFF
           /\ out = <<>>
           /\ exit_status # "EXIT_SUCCESS"

\* the same for every input error except a decompression failure in the
\* middle of the stream
C8_OtherErrorsStop ==
    (\/ InputError(left_file) /\ left_file.bz # "mid_fail"
     \/ InputError(right_file) /\ right_file.bz # "mid_fail" /\ ~InputError(left_file))
        => /\ diff_root = NULL_DIFF
           /\ out = <<>>
           /\ exit_status # "EXIT_SUCCESS"

RECURSIVE UniqueNames(_)
\* declaration names are unique within each container of the AST
UniqueNames(node) ==
    /\ UniqueDecls(node.cl)
    /\ \A i \in DOMAIN node.cl : UniqueNames(node.cl[i])

RECURSIVE SubsetsOf(_)
\* every subset of every set of the comparison tree under the node
SubsetsOf(node) ==
    UNION {UNION {{entry.datum} \cup UNION {SubsetsOf(member.datum) :
                                               member \in Range(entry.datum.items)} :
                     entry \in Range(set.items)} :
              set \in {s \in Range(node.items) : ~s.null}}

SingleFlavors == {"CIL_BLOCK", "CIL_MACRO"}

SingleSubsets(node) == {subset \in SubsetsOf(node) : subset.flavor \in SingleFlavors}

C10_Determinism ==
    pc = "second" => second_diff = diff_root


\* the ids of the comparison nodes that are members of a subset reachable
\* from the node, and the node itself
MemberIds(node) ==
    {node.id} \cup {member.datum.id : member \in UNION {Range(subset.items) :
                                                          subset \in SubsetsOf(node)}}

RECURSIVE AstIds(_, _)
\* the ids of all nodes that cmp_node_create is called for under an AST node
AstIds(cil_node, id) ==
    {id} \cup UNION {AstIds(cil_node.cl[i], Append(id, i)) : i \in DOMAIN cil_node.cl}

\* the ids of the nodes that cmp_subset_add_node destroyed as duplicates
DestroyedIds(db, root) == AstIds(db, <<>>) \ MemberIds(root)

\* C11 (no ghosts): after a comparison every LEFT record references a
\* comparison node that is a member of a subset reachable from the left root,
\* every RIGHT record one reachable from the right root, and no record
\* references a node that was destroyed as a duplicate during set
\* construction.
C11_NoGhosts ==
    diff_root # NULL_DIFF =>
        \A rec \in Range(RecordsInPrintOrder(diff_root)) :
            /\ rec.side = "LEFT" => /\ rec.node \in MemberIds(left_root)
                                    /\ rec.node \notin DestroyedIds(left_db, left_root)
            /\ rec.side = "RIGHT" => /\ rec.node \in MemberIds(right_root)
                                     /\ rec.node \notin DestroyedIds(right_db, right_root)

\* a comparison with records of both sides where set construction destroyed
\* a duplicate on the left side
C11_Witness ==
    /\ pc = "compared"
    /\ DestroyedIds(left_db, left_root) # {}
    /\ \E r1, r2 \in Range(RecordsInPrintOrder(diff_root)) :
           r1.side = "LEFT" /\ r2.side = "RIGHT"

\* expressions of a boolean condition: an optional operator, then up to two
\* operands that are names or, at the outer level, sub-expressions
BoolExprs(operands) ==
    {[flavor |-> "CIL_BOOL", items |-> head \o rest] :
        head \in {<<>>, <<OpItem("CIL_AND")>>, <<OpItem("CIL_OR")>>},
        rest \in SeqsUpTo(operands, 2)}

ExprPool ==
    BoolExprs({StrItem("D"), StrItem("E"),
               ListItem([flavor |-> "CIL_BOOL", items |-> <<OpItem("CIL_NOT"), StrItem("D")>>]),
               ListItem([flavor |-> "CIL_BOOL",
                         items |-> <<OpItem("CIL_AND"), StrItem("D"), StrItem("E")>>]),
               ListItem([flavor |-> "CIL_BOOL",
                         items |-> <<OpItem("CIL_AND"), StrItem("E"), StrItem("D")>>])})
    \cup {Perms(ps) : ps \in SeqsUpTo({"D", "E"}, 2)}

\* the comparison has run on (allow A B (C (D E))) against (allow A B (C (E D)))
PermutedPerms ==
    /\ diff_root # NULL_DIFF
    /\ Stmts(left_db) = <<rule12>> /\ Stmts(right_db) = <<rule21>>

\* over the pool, equal hashes exactly for equal normalised expressions
HashIffNormExpr ==
    \A e1, e2 \in ExprPool :
        (hash_cil_expr(e1) = hash_cil_expr(e2)) <=> (NormExpr(e1) = NormExpr(e2))

\* the pool holds two different expressions with one hash and two
\* expressions of one length with different hashes
BothExprCases ==
    /\ \E e1, e2 \in ExprPool : e1 # e2 /\ hash_cil_expr(e1) = hash_cil_expr(e2)
    /\ \E e1, e2 \in ExprPool :
           Len(e1.items) = Len(e2.items) /\ hash_cil_expr(e1) # hash_cil_expr(e2)

\* C12 (expression canonicalisation): hash_cil_expr gives two expressions the
\* same hash exactly when they have the same flavor, the same operator and
\* the same multiset of operands, sub-expressions taken the same way; so
\* (allow A B (C (D E))) and (allow A B (C (E D))) have equal full hashes and
\* compare with an empty diff tree.
C12_ExprCanonical ==
    /\ HashIffNormExpr
    /\ PermutedPerms =>
           /\ cmp_data_init("CIL_AVRULE", rule12.data).full_hash
                  = cmp_data_init("CIL_AVRULE", rule21.data).full_hash
           /\ cmp_hash_cmp(left_root.full_hash, right_root.full_hash) = 0
           /\ CountDiffs(diff_root) = 0 /\ diff_root.children = <<>> /\ ~diff_root.aborted

C12_Witness ==
    /\ PermutedPerms
    /\ pc = "compared"
    /\ BothExprCases

RECURSIVE UsesFlavor(_, _)
\* a node of the flavor occurs in the AST
UsesFlavor(cil_node, flavor) ==
    \/ cil_node.flavor = flavor
    \/ \E i \in DOMAIN cil_node.cl : UsesFlavor(cil_node.cl[i], flavor)

\* both inputs are loaded, main is past its two cmp_node_create calls, and one
\* of the ASTs holds a statement of a flavor that has no data-hasher rule
UnregisteredHashed ==
    /\ left_db # NULL_DB /\ right_db # NULL_DB /\ pc # "loaded"
    /\ UsesFlavor(left_db, "CIL_NODE") \/ UsesFlavor(right_db, "CIL_NODE")

\* C13 as stated (default rule): for a node whose flavor has no registered
\* data-hasher rule cmp_data_init returns normally, so both comparison roots
\* are built and no error is reported.
C13_DefaultRuleReturns ==
    UnregisteredHashed => /\ left_root # NULL_NODE /\ right_root # NULL_NODE
                          /\ err = <<>>

\* C13 amended: for a node whose flavor has no registered data-hasher rule
\* cmp_data_init ends the process: the message "Encountered an unknown node
\* type" is written, the exit status is EXIT_FAILURE, no hash line and no
\* diff is written; for registered flavors alone both roots are built.
C13_UnregisteredExits ==
    /\ UnregisteredHashed => /\ pc = "exit" /\ exit_status = "EXIT_FAILURE"
                             /\ err = <<"Encountered an unknown node type">>
                             /\ right_root = NULL_NODE
                             /\ diff_root = NULL_DIFF /\ out = <<>>
    /\ (/\ left_db # NULL_DB /\ right_db # NULL_DB /\ pc # "loaded"
        /\ ~UsesFlavor(left_db, "CIL_NODE") /\ ~UsesFlavor(right_db, "CIL_NODE"))
           => left_root # NULL_NODE /\ right_root # NULL_NODE

C13_Witness ==
    /\ UnregisteredHashed
    /\ ~UsesFlavor(left_db, "CIL_NODE") /\ Len(Stmts(left_db)) > 0
    /\ left_root # NULL_NODE
    /\ \E i \in DOMAIN Stmts(right_db) : Stmts(right_db)[i].flavor = "CIL_OPTIONAL"
    /\ pc = "exit"

\* the comparison has run on an empty left policy and a right policy that is
\* the one statement (type T) (scenario S3)
S3 ==
    /\ diff_root # NULL_DIFF
    /\ Stmts(left_db) = <<>> /\ Stmts(right_db) = <<Type("T")>>

\* C14 (pure add): with an empty left policy and the right policy (type T)
\* the diff tree holds exactly one record, a RIGHT record for the type node
\* T, attached to the root diff node, and no child diff node: the root and
\* the source-info wrapper add no level.
C14_PureAdd ==
    S3 => /\ diff_root.diffs = <<[side |-> "RIGHT", node |-> <<1, 1>>]>>
          /\ diff_root.children = <<>>
          /\ CountDiffs(diff_root) = 1 /\ ~diff_root.aborted
          /\ Stmts(right_db)[1].flavor = "CIL_TYPE" /\ Stmts(right_db)[1].data.name = "T"

C14_Witness == S3 /\ pc = "printed" /\ Len(diff_root.diffs) = 1

RECURSIVE SetsOf(_)
\* every set of the comparison tree under the node
SetsOf(node) ==
    {s \in Range(node.items) : ~s.null}
    \cup UNION {SetsOf(member.datum) :
                   member \in UNION {Range(subset.items) : subset \in SubsetsOf(node)}}

RECURSIVE SumSubsetSims(_, _, _)
\* the component-wise sum, over the partial hashes, of the similarity of the
\* left subset (or none) and the right subset (or none) under the hash
SumSubsetSims(keys, left, right) ==
    IF keys = {} THEN SIM_ZERO
    ELSE LET k == CHOOSE key \in keys : TRUE
         IN cmp_sim_add(cmp_subset_sim(hashtab_search(MaybeItems(left), k, NULL_SUBSET),
                                       hashtab_search(MaybeItems(right), k, NULL_SUBSET)),
                        SumSubsetSims(keys \ {k}, left, right))

\* C15 (set similarity): for every set of the left tree (or none) and every
\* set of the right tree (or none), cmp_set_sim is the component-wise sum,
\* over every partial hash present in either set, of cmp_subset_sim of the
\* two subsets under that hash; a hash present on both sides is counted in
\* the left pass only and the right pass adds nothing for it.
C15_SetSimIsSum ==
    (left_root # NULL_NODE /\ right_root # NULL_NODE) =>
        \A left \in SetsOf(left_root) \cup {NULL_SET}, right \in SetsOf(right_root) \cup {NULL_SET} :
            \A env \in Envs :
                cmp_set_sim(left, right, env)
                    = SumSubsetSims(Range(Keys(MaybeItems(left))) \cup Range(Keys(MaybeItems(right))),
                                    left, right)

\* the comparison nodes of the tree under the node, the node included
NodesOf(node) ==
    {node} \cup {member.datum : member \in UNION {Range(subset.items) :
                                                    subset \in SubsetsOf(node)}}

\* the similarity the default rule is stated to give
StatedDefaultSim(left, right) ==
    IF left.null THEN [common |-> 0, left |-> 0, right |-> 1]
    ELSE IF right.null THEN [common |-> 0, left |-> 1, right |-> 0]
    ELSE IF cmp_hash_cmp(left.full_hash, right.full_hash) = 0
    THEN [common |-> 1, left |-> 0, right |-> 0]
    ELSE [common |-> 0, left |-> 1, right |-> 1]

\* C16 (default node similarity): for two nodes of one flavor that has no sim
\* function of its own, cmp_node_sim gives (1,0,0) when both are present
\* with equal full hashes, (0,1,1) when both are present with different full
\* hashes, (0,1,0) when only the left and (0,0,1) when only the right node is
\* present.
C16_DefaultSim ==
    (left_root # NULL_NODE /\ right_root # NULL_NODE) =>
        \A left \in NodesOf(left_root) \cup {NULL_NODE}, right \in NodesOf(right_root) \cup {NULL_NODE} :
            (/\ ~(left.null /\ right.null)
             /\ left.null \/ right.null \/ left.flavor = right.flavor
             /\ cmp_node_get_def(Either(left, right).flavor).sim = "none")
                => \A env \in Envs : cmp_node_sim(left, right, env) = StatedDefaultSim(left, right)

\* the set similarity of the child sets of two present nodes, both branches
\* of a conditional added up
ChildSetsSim(left, right, env) ==
    IF Len(left.items) = 2
    THEN cmp_sim_add(cmp_set_sim(left.items[1], right.items[1], env),
                     cmp_set_sim(left.items[2], right.items[2], env))
    ELSE cmp_set_sim(left.items[1], right.items[1], env)

\* C17 (container similarity): for two present nodes of one container flavor
\* (optional, in, booleanif, block, macro, root, source info) cmp_node_sim
\* is the set similarity of their child sets, summed over both branches for
\* a conditional; so for two `in` nodes the common count is the number of
\* child statements they share.
C17_ContainerSim ==
    (left_root # NULL_NODE /\ right_root # NULL_NODE) =>
        \A left \in NodesOf(left_root), right \in NodesOf(right_root) :
            (left.flavor = right.flavor /\ cmp_node_get_def(left.flavor).init # "default")
                => \A env \in Envs : cmp_node_sim(left, right, env) = ChildSetsSim(left, right, env)

\* the same for the flavors that register a sim function: optional,
\* booleanif, root and source info
C17_RegisteredSim ==
    (left_root # NULL_NODE /\ right_root # NULL_NODE) =>
        \A left \in NodesOf(left_root), right \in NodesOf(right_root) :
            (left.flavor = right.flavor /\ cmp_node_get_def(left.flavor).sim # "none")
                => \A env \in Envs : cmp_node_sim(left, right, env) = ChildSetsSim(left, right, env)

\* rate(sim1) >= rate(sim2) in double arithmetic: false when a rate is NaN
RateGeq(sim1, sim2) ==
    /\ ~RateIsNaN(sim1) /\ ~RateIsNaN(sim2)
    /\ sim1.common * (sim2.common + sim2.left + sim2.right)
           >= sim2.common * (sim1.common + sim1.left + sim1.right)

\* rate(sim1) > rate(sim2) in double arithmetic
RateGt(sim1, sim2) ==
    /\ ~RateIsNaN(sim1) /\ ~RateIsNaN(sim2)
    /\ sim1.common * (sim2.common + sim2.left + sim2.right)
           > sim2.common * (sim1.common + sim1.left + sim1.right)

\* the pairs of subsets that set_compare_map hands to the similarity
\* comparator: one flavor, one partial hash, different full hashes
SimSubsetPairs ==
    {pair \in SubsetsOf(left_root) \X SubsetsOf(right_root) :
        /\ pair[1].flavor = pair[2].flavor
        /\ cmp_subset_get_def(pair[1].flavor) = "container_sim"
        /\ pair[1].items[1].datum.partial_hash = pair[2].items[1].datum.partial_hash
        /\ cmp_hash_cmp(pair[1].full_hash, pair[2].full_hash) # 0}

\* the members of the first subset whose full hash the second does not hold
UniqueOf(this, other) == container_sim_compare_map(this.items, 1, other, <<>>)

\* the child diff nodes the similarity comparator makes for a pair of subsets
MatchesOf(pair, env) ==
    cmp_subset_container_sim_compare(pair[1], pair[2],
                                     diff_tree_create(left_root, right_root), env).children

\* the member of the list that has the id
ById(nodes, id) == CHOOSE node \in Range(nodes) : node.id = id

\* the walk is greedy on the rates the comparator computed
GreedyOn(unique_left, unique_right, matches, env) ==
    /\ \A l \in Range(unique_left), r \in Range(unique_right) :
           (\A k \in DOMAIN matches : ~(matches[k].left_node = l.id /\ matches[k].right_node = r.id))
               => \E k \in DOMAIN matches :
                      /\ matches[k].left_node = l.id \/ matches[k].right_node = r.id
                      /\ RateGeq(cmp_node_sim(ById(unique_left, matches[k].left_node),
                                              ById(unique_right, matches[k].right_node), env),
                                 cmp_node_sim(l, r, env))
    /\ \A k \in DOMAIN matches :
           \A l \in Range(unique_left), r \in Range(unique_right) :
               (\A j \in 1..(k - 1) : matches[j].left_node # l.id /\ matches[j].right_node # r.id)
                   => ~RateGt(cmp_node_sim(l, r, env),
                              cmp_node_sim(ById(unique_left, matches[k].left_node),
                                           ById(unique_right, matches[k].right_node), env))

\* C18 (greedy matching in descending rate): after the similarity matching
\* of two subsets, of every two unique members l and r that were not matched
\* to each other at least one is matched in a pair whose rate is at least
\* rate(l, r), and no pair is matched while a pair of strictly higher rate
\* has both of its members unmatched.
C18_Greedy ==
    (left_root # NULL_NODE /\ right_root # NULL_NODE) =>
        \A pair \in SimSubsetPairs : \A env \in Envs :
            GreedyOn(UniqueOf(pair[1], pair[2]), UniqueOf(pair[2], pair[1]),
                     MatchesOf(pair, env), env)

\* the number of child diff nodes that have the node as their left node
LeftPairs(diff_node, id) == Cardinality({k \in DOMAIN diff_node.children :
                                            diff_node.children[k].left_node = id})

\* the number of child diff nodes that have the node as their right node
RightPairs(diff_node, id) == Cardinality({k \in DOMAIN diff_node.children :
                                             diff_node.children[k].right_node = id})

\* the number of records of the side for the node
RecordsFor(diff_node, side, id) ==
    Cardinality({k \in DOMAIN diff_node.diffs :
                    diff_node.diffs[k] = [side |-> side, node |-> id]})

\* the diff node partitions the members of the two subsets
PartitionOf(left, right, diff_node) ==
    /\ \A member \in Range(left.items) :
           IF hashtab_has(right.items, member.key)
           THEN LeftPairs(diff_node, member.datum.id) = 0
                /\ RecordsFor(diff_node, "LEFT", member.datum.id) = 0
           ELSE LeftPairs(diff_node, member.datum.id)
                    + RecordsFor(diff_node, "LEFT", member.datum.id) = 1
    /\ \A member \in Range(right.items) :
           IF hashtab_has(left.items, member.key)
           THEN RightPairs(diff_node, member.datum.id) = 0
                /\ RecordsFor(diff_node, "RIGHT", member.datum.id) = 0
           ELSE RightPairs(diff_node, member.datum.id)
                    + RecordsFor(diff_node, "RIGHT", member.datum.id) = 1
    /\ \A k \in DOMAIN diff_node.children :
           /\ diff_node.children[k].left_node \in {m.datum.id : m \in Range(left.items)}
           /\ diff_node.children[k].right_node \in {m.datum.id : m \in Range(right.items)}
    /\ Len(diff_node.diffs) + 2 * Len(diff_node.children)
           = Len(UniqueOf(left, right)) + Len(UniqueOf(right, left))

\* C19 (similarity matching partitions the unique members): after the
\* similarity comparator ran on two subsets, every left member whose full
\* hash is absent on the right is the left node of exactly one new child
\* diff node or the node of exactly one LEFT record, never both and never
\* neither, and the same for right members and RIGHT records; no member is
\* in two pairs; a member whose full hash is on both sides gets neither;
\* every child diff node has a left and a right node.
C19_Partition ==
    (left_root # NULL_NODE /\ right_root # NULL_NODE) =>
        \A pair \in SimSubsetPairs : \A env \in Envs :
            PartitionOf(pair[1], pair[2],
                        cmp_subset_container_sim_compare(pair[1], pair[2],
                            diff_tree_create(left_root, right_root), env))

C19_Witness ==
    /\ pc = "compared"
    /\ \E pair \in SimSubsetPairs :
           /\ Len(UniqueOf(pair[1], pair[2])) = 2 /\ Len(UniqueOf(pair[2], pair[1])) = 1
           /\ \E c \in Range(diff_root.children) :
                  /\ c.left_node \in {m.id : m \in Range(UniqueOf(pair[1], pair[2]))}
                  /\ c.right_node \in {m.id : m \in Range(UniqueOf(pair[2], pair[1]))}
           /\ \E d \in Range(diff_root.diffs) :
                  d.side = "LEFT" /\ d.node \in {m.id : m \in Range(UniqueOf(pair[1], pair[2]))}

\* the pairs of subsets, one of them possibly absent, that set_compare_map
\* hands to the default strategy: a flavor without subset comparator, one
\* partial hash, different full hashes
DefaultSubsetPairs ==
    {pair \in (SubsetsOf(left_root) \cup {NULL_SUBSET}) \X (SubsetsOf(right_root) \cup {NULL_SUBSET}) :
        /\ ~(pair[1].null /\ pair[2].null)
        /\ cmp_subset_get_def(Either(pair[1], pair[2]).flavor) = "none"
        /\ (~pair[1].null /\ ~pair[2].null) =>
               /\ pair[1].flavor = pair[2].flavor
               /\ pair[1].items[1].datum.partial_hash = pair[2].items[1].datum.partial_hash
               /\ cmp_hash_cmp(pair[1].full_hash, pair[2].full_hash) # 0}

\* one record for every member the other side lacks and nothing else
DefaultRecords(left, right, diff_node) ==
    /\ diff_node.children = <<>> /\ ~diff_node.aborted
    /\ \A member \in Range(MaybeItems(left)) :
           RecordsFor(diff_node, "LEFT", member.datum.id)
               = IF hashtab_has(MaybeItems(right), member.key) THEN 0 ELSE 1
    /\ \A member \in Range(MaybeItems(right)) :
           RecordsFor(diff_node, "RIGHT", member.datum.id)
               = IF hashtab_has(MaybeItems(left), member.key) THEN 0 ELSE 1
    /\ Len(diff_node.diffs)
           = Cardinality({m \in Range(MaybeItems(left)) : ~hashtab_has(MaybeItems(right), m.key)})
             + Cardinality({m \in Range(MaybeItems(right)) : ~hashtab_has(MaybeItems(left), m.key)})

\* C20 (default subset strategy): for a flavor without subset comparator the
\* comparison of two subsets with different full hashes appends exactly one
\* LEFT record for every left member whose full hash is not a key of the
\* right subset, exactly one RIGHT record for every right member whose full
\* hash is not a key of the left subset, no record for a member of both, and
\* no child diff node; with one side absent every member of the other side
\* gets one record.
C20_DefaultStrategy ==
    (left_root # NULL_NODE /\ right_root # NULL_NODE) =>
        \A pair \in DefaultSubsetPairs : \A env \in Envs :
            DefaultRecords(pair[1], pair[2],
                           cmp_subset_compare(pair[1], pair[2],
                                              diff_tree_create(left_root, right_root), env))

\* (class c (p)) was compared with (class c (p q)) and a type that only the
\* right policy has: the two classes are in one subset pair with different
\* full hashes
C20_Witness ==
    /\ pc = "compared"
    /\ Stmts(left_db) = <<Class("c", <<"p">>)>>
    /\ Stmts(right_db) = <<Class("c", <<"p", "q">>), Type("T")>>
    /\ \E pair \in DefaultSubsetPairs : ~pair[1].null /\ ~pair[2].null
    /\ \E pair \in DefaultSubsetPairs : pair[1].null /\ pair[2].flavor = "CIL_TYPE"
    /\ Range(diff_root.diffs) = {[side |-> "LEFT", node |-> <<1, 1>>],
                                 [side |-> "RIGHT", node |-> <<1, 1>>],
                                 [side |-> "RIGHT", node |-> <<1, 2>>]}

RECURSIVE DiffNodesUnder(_)
\* the child diff nodes of a diff tree, all levels together
DiffNodesUnder(tree) ==
    Range(tree.children) \cup UNION {DiffNodesUnder(c) : c \in Range(tree.children)}

\* no record occurs twice in the sequence
NoRepeat(seq) == \A i, j \in DOMAIN seq : seq[i] = seq[j] => i = j

\* C21 (one comparison per partial hash): cmp_set_compare hands every
\* partial hash of the two sets to the subset comparator once, so after a
\* whole comparison no comparison node is referenced by more than one diff
\* record, nor by a diff record and by a child diff node.
C21_OneReferencePerNode ==
    diff_root # NULL_DIFF =>
        /\ NoRepeat(RecordsInPrintOrder(diff_root))
        /\ \A rec \in Range(RecordsInPrintOrder(diff_root)) :
               \A c \in DiffNodesUnder(diff_root) :
                   /\ rec.side = "LEFT" => c.left_node # rec.node
                   /\ rec.side = "RIGHT" => c.right_node # rec.node

\* a comparison with a subset on both sides, a subset only on the left and,
\* one level down, a subset only on the right
C21_Witness ==
    /\ pc = "compared"
    /\ Stmts(left_db) = <<Block("b", <<Optional("o2", <<rule1, rule2>>)>>), rule1>>
    /\ Stmts(right_db) = <<Block("b", <<Optional("o1", <<rule1>>), Type("T")>>)>>
    /\ [side |-> "LEFT", node |-> <<1, 2>>] \in Range(diff_root.diffs)
    /\ \E c \in DiffNodesUnder(diff_root) :
           /\ c.left_node = <<1, 1>> /\ c.right_node = <<1, 1>>
           /\ [side |-> "RIGHT", node |-> <<1, 1, 2>>] \in Range(c.diffs)
           /\ c.children # <<>>

RECURSIVE SubsetPairsUnder(_, _)
\* the pairs of subsets that a comparison of the two nodes can hand to
\* cmp_subset_compare or cmp_subset_sim: the subsets under one partial hash
\* in the child sets of the two nodes and, for members of one flavor, the
\* pairs under the members
SubsetPairsUnder(left, right) ==
    UNION {UNION {{<<el.datum, er.datum>>}
                  \cup UNION {SubsetPairsUnder(ml.datum, mr.datum) :
                                 <<ml, mr>> \in {mm \in Range(el.datum.items) \X Range(er.datum.items) :
                                                    mm[1].datum.flavor = mm[2].datum.flavor}} :
                     <<el, er>> \in {ee \in Range(MaybeItems(left.items[i]))
                                              \X Range(MaybeItems(right.items[i])) :
                                        cmp_hash_cmp(ee[1].key, ee[2].key) = 0}} :
              i \in DOMAIN left.items \cap DOMAIN right.items}

HashAt(cl, i) == cmp_node_create(cl[i], <<1, i>>).full_hash

\* the places of a child list whose full hash no earlier place has
FirstIdx(cl) == {i \in DOMAIN cl : \A j \in 1..(i - 1) : HashAt(cl, j) # HashAt(cl, i)}

\* the child list with every later duplicate (by full hash) removed
Dedup(cl) ==
    LET idx == SelectSeq([i \in DOMAIN cl |-> i], LAMBDA i : i \in FirstIdx(cl))
    IN [k \in DOMAIN idx |-> cl[idx[k]]]

\* the ids of the members of the child set of the src_info node of a tree
StmtMemberIds(root) ==
    UNION {UNION {{m.datum.id : m \in Range(sub.datum.items)} :
                     sub \in Range(src.datum.items[1].items)} :
              src \in UNION {Range(e.datum.items) : e \in Range(root.items[1].items)}}

DedupOn(db, root) ==
    /\ \A subset \in SubsetsOf(root) :
           \A i, j \in DOMAIN subset.items :
               /\ subset.items[i].datum.full_hash = subset.items[i].key
               /\ cmp_hash_cmp(subset.items[i].key, subset.items[j].key) = 0 => i = j
    /\ StmtMemberIds(root) = {<<1, i>> : i \in FirstIdx(Stmts(db))}
    /\ cmp_set_create(Stmts(db), <<1>>).full_hash
           = cmp_set_create(Dedup(Stmts(db)), <<1>>).full_hash

\* C23 (silent deduplication): no subset of a built set holds two members
\* with the same full hash, the member kept is the first one in child-list
\* order, the full hash of the set is that of the child list with the
\* duplicates removed, and a side that repeats statements of the other side
\* gives no diff record.
C23_SilentDedup ==
    /\ (left_root # NULL_NODE /\ right_root # NULL_NODE) =>
           DedupOn(left_db, left_root) /\ DedupOn(right_db, right_root)
    /\ (diff_root # NULL_DIFF /\ Dedup(Stmts(left_db)) = Stmts(right_db)) =>
           CountDiffs(diff_root) = 0

\* a rule written twice on the left (the second time with its permissions
\* in the other order) and once on the right
C23_Witness ==
    /\ pc = "compared"
    /\ Stmts(left_db) = <<rule12, rule21>>
    /\ Stmts(right_db) = <<rule12>>
    /\ StmtMemberIds(left_root) = {<<1, 1>>}
    /\ CountDiffs(diff_root) = 0

\* a child list read from its last child to its first
Backwards(cl) == [i \in DOMAIN cl |-> cl[Len(cl) + 1 - i]]

\* the partition of a set: the subsets as sets of member full hashes, under
\* their partial hashes
PartitionHashes(set) ==
    {<<sub.key, {m.key : m \in Range(sub.datum.items)}>> : sub \in Range(set.items)}

SameSetInAnyOrder(cl) ==
    /\ cmp_set_create(cl, <<1>>).full_hash = cmp_set_create(Backwards(cl), <<1>>).full_hash
    /\ PartitionHashes(cmp_set_create(cl, <<1>>))
           = PartitionHashes(cmp_set_create(Backwards(cl), <<1>>))
    /\ Keys(cmp_set_create(cl, <<1>>).items) = Keys(cmp_set_create(Backwards(cl), <<1>>).items)

\* the child lists that cmp_set_create gets from an AST: the statements and
\* the bodies of the statements that are containers
SetChildLists(db) ==
    {Stmts(db)} \cup {s.cl : s \in {t \in Range(Stmts(db)) :
                                       cmp_node_get_def(t.flavor).init = "container"}}

\* C24 (order insensitivity): cmp_set_create gives the same set full hash
\* and the same partition for a child list and its permutation, and two
\* sides whose statements differ only in their order have equal root full
\* hashes and compare without any diff record.
C24_OrderInsensitive ==
    /\ (left_root # NULL_NODE /\ right_root # NULL_NODE) =>
           \A cl \in SetChildLists(left_db) \cup SetChildLists(right_db) : SameSetInAnyOrder(cl)
    /\ (diff_root # NULL_DIFF /\ Stmts(right_db) = Backwards(Stmts(left_db))) =>
           /\ cmp_hash_cmp(left_root.full_hash, right_root.full_hash) = 0
           /\ CountDiffs(diff_root) = 0

\* a type and a rule on the left, the rule and the type on the right
C24_Witness ==
    /\ pc = "compared"
    /\ Stmts(left_db) = <<Type("T"), rule12>>
    /\ Stmts(right_db) = <<rule12, Type("T")>>
    /\ left_root.full_hash = right_root.full_hash
    /\ CountDiffs(diff_root) = 0

\* the places of the condblocks of one kind in a conditional statement
BranchIdx(stmt, kind) == {i \in DOMAIN stmt.cl : stmt.cl[i].data.flavor = kind}

\* the full hashes of the statements in the branches of one kind
BranchHashes(stmt, kind) ==
    UNION {{HashAt(stmt.cl[i].cl, k) : k \in DOMAIN stmt.cl[i].cl} : i \in BranchIdx(stmt, kind)}

\* the ids of the nodes that a branch of the first statement holds and the
\* branch of the same kind of the other statement does not
OnlyIn(stmt, other, kind) ==
    UNION {{<<1, 1, i, k>> : k \in {n \in DOMAIN stmt.cl[i].cl :
                                       HashAt(stmt.cl[i].cl, n) \notin BranchHashes(other, kind)}} :
              i \in BranchIdx(stmt, kind)}

CondKinds == {"CIL_CONDTRUE", "CIL_CONDFALSE"}

\* the conditional with the tags of its condblocks exchanged
Exchanged(stmt) ==
    [stmt EXCEPT !.cl = [i \in DOMAIN stmt.cl |->
        [stmt.cl[i] EXCEPT !.data.flavor =
            IF @ = "CIL_CONDTRUE" THEN "CIL_CONDFALSE" ELSE "CIL_CONDTRUE"]]]

\* whether a statement is a conditional with at most one condblock per kind
IsCond(stmt) ==
    /\ stmt.flavor \in {"CIL_BOOLEANIF", "CIL_TUNABLEIF"}
    /\ \A kind \in CondKinds : Cardinality(BranchIdx(stmt, kind)) <= 1

CondHashByTag(stmt) ==
    /\ cmp_node_create(stmt, <<1, 1>>).full_hash
           = cmp_node_create([stmt EXCEPT !.cl = Backwards(@)], <<1, 1>>).full_hash
    /\ (cmp_node_create(stmt, <<1, 1>>).full_hash
            = cmp_node_create(Exchanged(stmt), <<1, 1>>).full_hash)
       <=> (cmp_node_create(stmt, <<1, 1>>).items[1] = cmp_node_create(stmt, <<1, 1>>).items[2])

\* C25 (branches of a conditional): a condblock belongs to the branch its
\* tag names, whatever its position: the full hash of a conditional stays
\* when the condblocks are written in the opposite order and changes when
\* the contents of the two branches are exchanged, and the comparison of two
\* conditionals reports exactly the statements that the false branch of one
\* side has and the false branch of the other has not, and the same for the
\* true branches.
C25_BranchByTag ==
    /\ (left_root # NULL_NODE /\ right_root # NULL_NODE) =>
           \A stmt \in {s \in Range(Stmts(left_db)) \cup Range(Stmts(right_db)) : IsCond(s)} :
               CondHashByTag(stmt)
    /\ (/\ diff_root # NULL_DIFF
        /\ Len(Stmts(left_db)) = 1 /\ Len(Stmts(right_db)) = 1
        /\ IsCond(Stmts(left_db)[1]) /\ IsCond(Stmts(right_db)[1])
        /\ Stmts(left_db)[1].data = Stmts(right_db)[1].data) =>
           Range(RecordsInPrintOrder(diff_root))
               = {[side |-> "LEFT", node |-> id] :
                     id \in UNION {OnlyIn(Stmts(left_db)[1], Stmts(right_db)[1], kind) :
                                      kind \in CondKinds}}
                 \cup {[side |-> "RIGHT", node |-> id] :
                          id \in UNION {OnlyIn(Stmts(right_db)[1], Stmts(left_db)[1], kind) :
                                           kind \in CondKinds}}

\* the true branch first on the left, the false branch first on the right
\* with the contents of the two branches exchanged: four records
C25_Witness ==
    /\ pc = "compared"
    /\ Stmts(left_db) = <<BooleanIf("b", <<CondTrue(<<rule1>>), CondFalse(<<rule2>>)>>)>>
    /\ Stmts(right_db) = <<BooleanIf("b", <<CondFalse(<<rule1>>), CondTrue(<<rule2>>)>>)>>
    /\ CountDiffs(diff_root) = 4

\* whether two statements are ibpkeycon statements that differ in the upper
\* bound of the partition key range and in nothing else
OnlyHighDiffers(l, r) ==
    /\ l.flavor = "CIL_IBPKEYCON" /\ r.flavor = "CIL_IBPKEYCON"
    /\ l.data.pkey_high # r.data.pkey_high
    /\ [l.data EXCEPT !.pkey_high = r.data.pkey_high] = r.data

\* C26 (ibpkeycon upper bound): two ibpkeycon statements that differ only in
\* the upper bound have different full hashes, and a change of the upper
\* bound alone is reported as one LEFT record and one RIGHT record.
C26_HighBoundReported ==
    (/\ diff_root # NULL_DIFF
     /\ Len(Stmts(left_db)) = 1 /\ Len(Stmts(right_db)) = 1
     /\ OnlyHighDiffers(Stmts(left_db)[1], Stmts(right_db)[1])) =>
        /\ HashAt(Stmts(left_db), 1) # HashAt(Stmts(right_db), 1)
        /\ Range(RecordsInPrintOrder(diff_root))
               = {[side |-> "LEFT", node |-> <<1, 1>>], [side |-> "RIGHT", node |-> <<1, 1>>]}

\* C27 (completeness of the report): when the two roots have different full
\* hashes the diff tree holds at least one diff record, and every child diff
\* node made for two nodes with different full hashes has at least one diff
\* record in its subtree.
C27_Complete ==
    diff_root # NULL_DIFF =>
        /\ cmp_hash_cmp(left_root.full_hash, right_root.full_hash) # 0 => CountDiffs(diff_root) >= 1
        /\ \A c \in DiffNodesUnder(diff_root) :
               \A l \in {n \in NodesOf(left_root) : n.id = c.left_node} :
                   \A r \in {n \in NodesOf(right_root) : n.id = c.right_node} :
                       cmp_hash_cmp(l.full_hash, r.full_hash) # 0 => CountDiffs(c) >= 1

JumpFlavors == {"CIL_ROOT", "CIL_SRC_INFO"}

\* C28 (single-child jump): whenever a left and a right subset of flavor
\* root or source-info are compared, each of the two has exactly one member,
\* so the entry assertion of the comparator holds, also when one parent has
\* several source-info children with different contents.
C28_JumpAssertHolds ==
    diff_root # NULL_DIFF =>
        \A pair \in SubsetPairsUnder(left_root, right_root) :
            (/\ pair[1].flavor \in JumpFlavors
             /\ cmp_hash_cmp(pair[1].full_hash, pair[2].full_hash) # 0)
                => /\ single_assert(pair[1], pair[2])
                   /\ Len(pair[1].items) = 1 /\ Len(pair[2].items) = 1

\* C29 (rates are numbers): for every pair of unique members whose
\* similarity the matching of two subsets evaluates, common + left + right
\* is positive, so the rate is a number and the comparator orders the pairs
\* by it; also for two in-statements and for two containers with empty
\* bodies.
C29_RateDefined ==
    (left_root # NULL_NODE /\ right_root # NULL_NODE) =>
        \A pair \in SimSubsetPairs : \A env \in Envs :
            \A l \in Range(UniqueOf(pair[1], pair[2])), r \in Range(UniqueOf(pair[2], pair[1])) :
                ~RateIsNaN(cmp_node_sim(l, r, env))

\* the smaller of two numbers
Min(a, b) == IF a <= b THEN a ELSE b

\* the diff node the similarity comparator fills for a pair of subsets
SimCompareOf(pair, env) ==
    cmp_subset_container_sim_compare(pair[1], pair[2],
                                     diff_tree_create(left_root, right_root), env)

\* C30 (matching pairs as many as it can): when both lists of unique
\* members are not empty, the similarity matching of two subsets makes
\* exactly min(|unique_left|, |unique_right|) child diff nodes, also for
\* pairs of rate 0, so the records left over for the two subsets are all on
\* one side.
C30_MinPairs ==
    (left_root # NULL_NODE /\ right_root # NULL_NODE) =>
        \A pair \in SimSubsetPairs : \A env \in Envs :
            (UniqueOf(pair[1], pair[2]) # <<>> /\ UniqueOf(pair[2], pair[1]) # <<>>) =>
                /\ Len(SimCompareOf(pair, env).children)
                       = Min(Len(UniqueOf(pair[1], pair[2])), Len(UniqueOf(pair[2], pair[1])))
                /\ Len(SimCompareOf(pair, env).diffs)
                       = Len(UniqueOf(pair[1], pair[2])) + Len(UniqueOf(pair[2], pair[1]))
                         - 2 * Len(SimCompareOf(pair, env).children)
                /\ \A d1, d2 \in Range(SimCompareOf(pair, env).diffs) : d1.side = d2.side

\* two optionals on the left and one on the right that shares no rule with
\* the second: one pair is made, the other left optional is a LEFT record;
\* and a pair of optionals with no rule in common has been paired
C30_Witness ==
    /\ pc = "compared"
    /\ Stmts(left_db) = <<Optional("o2", <<rule1>>), Optional("o1", <<rule1, rule3>>)>>
    /\ Stmts(right_db) = <<Optional("o2", <<rule2>>)>>
    /\ Len(diff_root.children) = 1
    /\ Len(diff_root.diffs) = 1 /\ diff_root.diffs[1].side = "LEFT"
    /\ \E pair \in SimSubsetPairs : Len(UniqueOf(pair[1], pair[2])) = 2
                                      /\ Len(UniqueOf(pair[2], pair[1])) = 1
=============================================================================
